---- MODULE Spec2Model ----
(***************************************************************************)
(* State-machine model of the client-side delta synchronization core       *)
(* (DeltaManager): ordering and gap recovery of sequenced messages, the    *)
(* connection state machine, the outbound pipeline and the acknowledgement *)
(* scheduler.                                                              *)
(*                                                                         *)
(* Every handler of the class is a pure operator from a state record to a  *)
(* state record (named as in the source); an action applies one handler,   *)
(* with all the synchronous calls it makes, to the current state.          *)
(***************************************************************************)
EXTENDS Integers, Sequences, FiniteSets, Bags, TLC

\* ------------------------------------------------------------------ bounds
\* Highest sequence number the server has assigned.
MaxSeq == 4
\* Messages handed to enqueueMessages from the socket (caps the duplicate counter).
MaxArrived == 4
\* Connections the service opens during one run.
MaxConn == 3
\* submit() calls made by the application during one run.
MaxSubmit == 2
\* Consecutive getDeltas attempts without deltas.
MaxRetry == 1
MaxLadder == 1
MaxConnAck == 2
MaxSubmitAck == 1
MaxSubmitBatch == 4
\* Signals the socket emits during one run.
MaxSignals == 2
\* Calls made through the epoch tracker during one run; through the rate
\* limiter; through the redemption tracker.
MaxRequests == 4
MaxRateRequests == 26
MaxRedeemRequests == 4
\* The retryAfterSeconds value a throttling error carries.
RetryAfterSeconds == 5

\* ------------------------------------------------------- program constants
MaxReconnectDelay == 8000
InitialReconnectDelay == 1000
MissingFetchDelay == 100
MaxFetchDelay == 10000
MaxBatchDeltas == 2000
DefaultContentBufferSize == 10
\* setTimeout(..., 100) of the acknowledgement scheduler
AckTimerDelay == 100

\* `undefined` for an optional number (the `to` of getDeltas) and for the connection
NoTo == 0 - 1
NoConnection == 0

VARIABLES
    \* ---- DeltaManager fields
    closed,                        \* this.closed
    handler,                       \* this.handler !== undefined
    pending,                       \* this.pending
    fetching,                      \* this.fetching
    inQuorum,                      \* this.inQuorum
    updateSequenceNumberTimer,     \* this.updateSequenceNumberTimer !== undefined
    minSequenceNumber,
    lastQueuedSequenceNumber,
    baseSequenceNumber,
    initSequenceNumber,
    inboundPending,                \* this._inboundPending (a DeltaQueue)
    inbound,                       \* this._inbound   (a DeltaQueue)
    inboundSignal,                 \* this._inboundSignal (a DeltaQueue)
    outbound,                      \* this._outbound  (a DeltaQueue)
    connecting,                    \* this.connecting !== undefined (a pending Deferred)
    connection,                    \* this.connection (NoConnection when undefined)
    connectionMode,
    systemConnectionMode,          \* constructor: client.mode
    canReconnect,                  \* constructor: clientType === Browser && reconnect
    clientSequenceNumber,
    clientSequenceNumberObserved,
    messageBuffer,
    duplicateMsgCount,
    contentCache,                  \* this.contentCache (a ContentCache)
    deltaStorageP,                 \* the cached connectToDeltaStorage() promise
    \* ---- the asynchronous calls in flight
    attempts,                      \* bag of connectCore attempts: connecting or waiting
    gd,                            \* the getDeltas call started by fetchMissingDeltas
    fetchOp,                       \* the fetchOpContent call
    liveTimers,                    \* setTimeout timers armed and neither fired nor cleared
    \* ---- the environment
    stream,                        \* the server's authoritative stream, by sequence number
    nConn,                         \* connections opened so far
    connOpen,                      \* connections opened and not closed
    \* ---- observations
    delivered,                     \* messages passed to handler.process, in order
    processedSignals,              \* signals passed to handler.processSignal so far
    sent,                          \* messages passed to connection.submit, in order
    arrived,                       \* messages the socket handed to enqueueMessages
    lowArrivals,                   \* messages enqueued at a sequence number <= lastQueued
    nSubmit,                       \* application submit() calls so far
    firedInactive,                 \* a timer callback ran while the client was not active
    lastEvent,                     \* the last event emitted, of those emit() records
    handledAtConnect,              \* initial messages and contents handled when "connect" was emitted
    \* ---- EpochTracker fields
    fluidEpoch,                    \* this._fluidEpoch
    fileEntry,                     \* this._fileEntry !== undefined
    treesLatestDeferral,           \* the Deferred of EpochTrackerWithRedemption
    withRedemption,                \* the tracker is an EpochTrackerWithRedemption
    \* ---- the tracker's calls in flight
    requests,                      \* bag of fetchAndParseAsJSON / fetchResponse calls
    \* ---- observations of the tracker
    removeEntriesCalls,            \* persistedCache.removeEntries(fileEntry) calls so far
    outcomes,                      \* bag of what the callers received
    learnedEvents,                 \* EpochLearnedFirstTime telemetry events so far
    nRequests                      \* calls made so far

dmVars == << closed, handler, pending, fetching, inQuorum, updateSequenceNumberTimer,
           minSequenceNumber, lastQueuedSequenceNumber, baseSequenceNumber,
           initSequenceNumber, inboundPending, inbound, inboundSignal, outbound,
           connecting, connection,
           connectionMode, systemConnectionMode, canReconnect, clientSequenceNumber,
           clientSequenceNumberObserved, messageBuffer, duplicateMsgCount,
           contentCache, fetchOp,
           deltaStorageP, attempts, gd, liveTimers, stream, nConn, connOpen,
           delivered, processedSignals, sent, arrived, lowArrivals, nSubmit,
           firedInactive, lastEvent, handledAtConnect >>

etVars == << fluidEpoch, fileEntry, treesLatestDeferral, withRedemption, requests,
             removeEntriesCalls, outcomes, learnedEvents, nRequests >>

vars == << dmVars, etVars >>

\* Once({ e : x \in {v} }) is e with v for x, v being evaluated only once: the
\* handlers below take the state this way.
Once(S) == CHOOSE r \in S : TRUE

\* The current state as one record, so that handlers compose as functions.
State ==
    [ closed |-> closed, handler |-> handler, pending |-> pending,
      fetching |-> fetching, inQuorum |-> inQuorum,
      updateSequenceNumberTimer |-> updateSequenceNumberTimer,
      minSequenceNumber |-> minSequenceNumber,
      lastQueuedSequenceNumber |-> lastQueuedSequenceNumber,
      baseSequenceNumber |-> baseSequenceNumber,
      initSequenceNumber |-> initSequenceNumber,
      inboundPending |-> inboundPending, inbound |-> inbound,
      inboundSignal |-> inboundSignal, outbound |-> outbound,
      connecting |-> connecting,
      connection |-> connection, connectionMode |-> connectionMode,
      systemConnectionMode |-> systemConnectionMode, canReconnect |-> canReconnect,
      clientSequenceNumber |-> clientSequenceNumber,
      clientSequenceNumberObserved |-> clientSequenceNumberObserved,
      messageBuffer |-> messageBuffer, duplicateMsgCount |-> duplicateMsgCount,
      contentCache |-> contentCache, fetchOp |-> fetchOp,
      deltaStorageP |-> deltaStorageP, attempts |-> attempts, gd |-> gd,
      liveTimers |-> liveTimers, stream |-> stream, nConn |-> nConn,
      connOpen |-> connOpen, delivered |-> delivered,
      processedSignals |-> processedSignals, sent |-> sent,
      arrived |-> arrived, lowArrivals |-> lowArrivals, nSubmit |-> nSubmit,
      firedInactive |-> firedInactive, lastEvent |-> lastEvent,
      handledAtConnect |-> handledAtConnect ]

\* The next state is the record s0.
Becomes(s0) ==
    \E s \in {s0} :
    /\ closed' = s.closed
    /\ handler' = s.handler
    /\ pending' = s.pending
    /\ fetching' = s.fetching
    /\ inQuorum' = s.inQuorum
    /\ updateSequenceNumberTimer' = s.updateSequenceNumberTimer
    /\ minSequenceNumber' = s.minSequenceNumber
    /\ lastQueuedSequenceNumber' = s.lastQueuedSequenceNumber
    /\ baseSequenceNumber' = s.baseSequenceNumber
    /\ initSequenceNumber' = s.initSequenceNumber
    /\ inboundPending' = s.inboundPending
    /\ inbound' = s.inbound
    /\ inboundSignal' = s.inboundSignal
    /\ outbound' = s.outbound
    /\ connecting' = s.connecting
    /\ connection' = s.connection
    /\ connectionMode' = s.connectionMode
    /\ systemConnectionMode' = s.systemConnectionMode
    /\ canReconnect' = s.canReconnect
    /\ clientSequenceNumber' = s.clientSequenceNumber
    /\ clientSequenceNumberObserved' = s.clientSequenceNumberObserved
    /\ messageBuffer' = s.messageBuffer
    /\ duplicateMsgCount' = s.duplicateMsgCount
    /\ contentCache' = s.contentCache
    /\ fetchOp' = s.fetchOp
    /\ deltaStorageP' = s.deltaStorageP
    /\ attempts' = s.attempts
    /\ gd' = s.gd
    /\ liveTimers' = s.liveTimers
    /\ stream' = s.stream
    /\ nConn' = s.nConn
    /\ connOpen' = s.connOpen
    /\ delivered' = s.delivered
    /\ processedSignals' = s.processedSignals
    /\ sent' = s.sent
    /\ arrived' = s.arrived
    /\ lowArrivals' = s.lowArrivals
    /\ nSubmit' = s.nSubmit
    /\ firedInactive' = s.firedInactive
    /\ lastEvent' = s.lastEvent
    /\ handledAtConnect' = s.handledAtConnect
    /\ UNCHANGED etVars

\* ------------------------------------------------------------------ values

\* An error object: canRetry is "undefined", "true" or "false"; retryAfterSeconds
\* is present or not.  NoError is the `undefined` passed by nack and disconnect.
Errors ==
    [ isObject : {TRUE}, canRetry : {"undefined", "true", "false"},
      hasRetryAfter : BOOLEAN, retryAfterSeconds : {RetryAfterSeconds} ]

NoError ==
    [ isObject |-> FALSE, canRetry |-> "undefined", hasRetryAfter |-> FALSE,
      retryAfterSeconds |-> RetryAfterSeconds ]

\* A canRetryOnError that allows every retry.
canRetryOnError_Always(error) == TRUE

\* canRetryOnError(error)
canRetryOnError(error) ==
    \/ ~error.isObject
    \/ error.canRetry = "undefined"
    \/ error.canRetry = "true"

\* this.emit(event, ...) for the events "connect", "disconnect", "error",
\* "allSentOpsAckd" and "prepareSend".
emit(s, event) == [s EXCEPT !.lastEvent = event]

\* The sequenced message the server assigned sequence number n.
Msg(st, n) ==
    [ sequenceNumber |-> n,
      minimumSequenceNumber |-> st[n].minimumSequenceNumber,
      type |-> st[n].type,
      clientId |-> st[n].clientId,
      clientSequenceNumber |-> st[n].clientSequenceNumber,
      contents |-> st[n].contents ]

\* Messages n+1 .. hi of the stream, in order.
Range(st, n, hi) == [ i \in 1..(IF hi > n THEN hi - n ELSE 0) |-> Msg(st, n + i) ]

Min(a, b) == IF a <= b THEN a ELSE b

Pow2(n) == IF n = 0 THEN 1 ELSE IF n = 1 THEN 2 ELSE IF n = 2 THEN 4
           ELSE IF n = 3 THEN 8 ELSE IF n = 4 THEN 16 ELSE IF n = 5 THEN 32
           ELSE IF n = 6 THEN 64 ELSE 128

\* ------------------------------------------------------------- DeltaQueue
\* A queue with one worker: items wait in q; the worker takes the head when the
\* queue is not paused, not already processing and has not failed.
\* A queue is created empty and paused.
NewQueue ==
    [ q |-> <<>>, paused |-> TRUE, processing |-> FALSE, cur |-> <<>>,
      error |-> FALSE ]

QueuePush(queue, item) == [queue EXCEPT !.q = Append(@, item)]

\* A pause() that sets the queue running.
QueuePause_Resumes(queue) == [queue EXCEPT !.paused = FALSE]

QueuePause(queue) == [queue EXCEPT !.paused = TRUE]

QueueResume(queue) == [queue EXCEPT !.paused = FALSE]

\* A clear() that leaves the items where they are.
QueueClear_Nothing(queue) == queue

QueueClear(queue) == [queue EXCEPT !.q = <<>>]

\* The worker takes the head of the queue and awaits its handler.
QueueTake(queue) ==
    [queue EXCEPT !.q = Tail(@), !.processing = TRUE, !.cur = <<Head(queue.q)>>]

\* The handler called back without an error: the worker is free again.
QueueDone(queue) == [queue EXCEPT !.processing = FALSE, !.cur = <<>>]

\* The handler called back with an error, or threw: the queue stops for good.
QueueFail(queue) ==
    [queue EXCEPT !.processing = FALSE, !.cur = <<>>, !.error = TRUE]

QueueReady(queue) ==
    ~queue.paused /\ ~queue.processing /\ ~queue.error /\ queue.q # <<>>

\* --------------------------------------------------- acknowledgement timer

\* get active()
active(s) == s.inQuorum /\ s.connectionMode = "write"

\* A stopSequenceNumberUpdate that clears a timer whether or not one is armed.
stopSequenceNumberUpdate_Untested(s0) ==
    [s0 EXCEPT !.liveTimers = @ - 1, !.updateSequenceNumberTimer = FALSE]

\* stopSequenceNumberUpdate(): clearTimeout on the armed timer, then forget it.
stopSequenceNumberUpdate(s0) ==
    Once({ (
        [s EXCEPT !.liveTimers = IF s.updateSequenceNumberTimer THEN @ - 1 ELSE @,
                  !.updateSequenceNumberTimer = FALSE]
        ) : s \in {s0} })


\* ---------------------------------------------------------------- outbound

\* isSystemType(type)
isSystemType(type) == type \in {"join", "leave", "propose", "reject", "noop"}

\* createOutboundMessage(): a system message carries its contents in `data`.
createOutboundMessage(type, coreMessage) ==
    IF isSystemType(type)
    THEN [coreMessage EXCEPT !.contents = "null", !.data = coreMessage.contents]
    ELSE coreMessage

\* A flush() without the test for an empty buffer.
flush_PushesEmpty(s0) ==
    Once({ (
        emit([s EXCEPT !.outbound = QueuePush(@, s.messageBuffer),
                       !.messageBuffer = <<>>], "prepareSend")
        ) : s \in {s0} })

\* flush(): the buffered messages become one batch of the outbound queue.
flush(s0) ==
    Once({ (
        IF s.messageBuffer = <<>>
        THEN s
        ELSE [emit(s, "prepareSend") EXCEPT
                       !.outbound = QueuePush(@, s.messageBuffer),
                       !.messageBuffer = <<>>]
        ) : s \in {s0} })


\* The counter value submit() stamps on the message: ++this.clientSequenceNumber.
NextClientSequenceNumber(s) == s.clientSequenceNumber + 1

\* What submit() does with the acknowledgement timer.
submitStopsTimer(s) == stopSequenceNumberUpdate(s)

\* A submit that stamps the last queued sequence number.
submit_StampsLastQueued(s0, type, contents, batch) ==
    Once({ (
        LET message == [ clientSequenceNumber |-> NextClientSequenceNumber(s),
                         contents |-> contents,
                         data |-> "undefined",
                         referenceSequenceNumber |-> s.lastQueuedSequenceNumber,
                         type |-> type ]
            outboundMessage == createOutboundMessage(type, message)
            s1 == submitStopsTimer(
                     [s EXCEPT !.clientSequenceNumber = NextClientSequenceNumber(s)])
        IN  IF ~batch
            THEN LET s2 == flush(s1)
                 IN  flush([s2 EXCEPT !.messageBuffer = Append(@, outboundMessage)])
            ELSE [s1 EXCEPT !.messageBuffer = Append(@, outboundMessage)]
        ) : s \in {s0} })

\* submit(type, contents, batch)
submit(s0, type, contents, batch) ==
    Once({ (
        LET message == [ clientSequenceNumber |-> NextClientSequenceNumber(s),
                         contents |-> contents,
                         data |-> "undefined",
                         referenceSequenceNumber |-> s.baseSequenceNumber,
                         type |-> type ]
            outboundMessage == createOutboundMessage(type, message)
            s1 == submitStopsTimer(
                     [s EXCEPT !.clientSequenceNumber = NextClientSequenceNumber(s)])
        IN  IF ~batch
            THEN LET s2 == flush(s1)
                 IN  flush([s2 EXCEPT !.messageBuffer = Append(@, outboundMessage)])
            ELSE [s1 EXCEPT !.messageBuffer = Append(@, outboundMessage)]
        ) : s \in {s0} })


\* ------------------------------------------------------------------- close

\* close()
close(s0) ==
    Once({ (
        LET s1 == stopSequenceNumberUpdate([s EXCEPT !.closed = TRUE])
        IN  [s1 EXCEPT !.connOpen = @ \ {s1.connection},
                       !.connection = NoConnection,
                       !.connecting = FALSE,
                       !.inbound = QueuePause(QueueClear(@)),
                       !.outbound = QueueClear(@),
                       !.inboundSignal = QueuePause(QueueClear(@)),
                       !.pending = <<>>]
        ) : s \in {s0} })


\* closeOnConnectionError(error): reject the pending connect(), emit, close.
closeOnConnectionError(s0, error) ==
    Once({ (
        close(IF error.isObject
              THEN emit([s EXCEPT !.connecting = FALSE], "error")
              ELSE [s EXCEPT !.connecting = FALSE])
        ) : s \in {s0} })


\* ---------------------------------------------------- ordering and catch-up
IdleGetDeltas ==
    [ phase |-> "idle", from |-> 0, to |-> NoTo, allDeltas |-> <<>>,
      retry |-> 0, hasRetryAfter |-> FALSE, delay |-> 0 ]

\* getDeltas(from, to) up to its first await: the storage request is in flight.
getDeltasStart(s0, from, to) ==
    Once({ (
        [s EXCEPT !.gd = [ phase |-> "get", from |-> from, to |-> to,
                           allDeltas |-> <<>>, retry |-> 0,
                           hasRetryAfter |-> FALSE, delay |-> 0 ],
                  !.deltaStorageP = IF @ = "unset" THEN "pending" ELSE @]
        ) : s \in {s0} })


\* fetchMissingDeltas(from, to)
fetchMissingDeltas(s0, from, to) ==
    Once({ (
        IF s.fetching
        THEN s
        ELSE IF s.closed
             THEN s
             ELSE getDeltasStart([s EXCEPT !.fetching = TRUE], from, to)
        ) : s \in {s0} })


\* IsDuplicate with an off-by-one comparison.
IsDuplicate_Strict(s, message) == message.sequenceNumber < s.lastQueuedSequenceNumber

\* The test of handleOutOfOrderMessage for a message that was already queued.
IsDuplicate(s, message) == message.sequenceNumber <= s.lastQueuedSequenceNumber

\* What handleOutOfOrderMessage does with a message that was already queued.
countDuplicate(s0) ==
    Once({ (
        [s EXCEPT !.duplicateMsgCount = @ + 1]
        ) : s \in {s0} })


\* handleOutOfOrderMessage(message)
handleOutOfOrderMessage(s0, message) ==
    Once({ (
        IF IsDuplicate(s, message)
        THEN countDuplicate(s)
        ELSE fetchMissingDeltas([s EXCEPT !.pending = Append(@, message)],
                                s.lastQueuedSequenceNumber, message.sequenceNumber)
        ) : s \in {s0} })


\* InOrder accepting any newer message.
InOrder_AnyNewer(s, message) == message.sequenceNumber > s.lastQueuedSequenceNumber

\* The test of enqueueMessages for the next expected message.
InOrder(s, message) == message.sequenceNumber = s.lastQueuedSequenceNumber + 1

\* The loop of enqueueMessages over its messages (lowArrivals observes the
\* messages that arrive at or below lastQueuedSequenceNumber).  The loop over a
\* list is the loop over its first half followed by the loop over its second
\* half, which keeps the evaluation of a long batch shallow.
RECURSIVE enqueueLoop(_, _)
enqueueLoop(s0, messages) ==
    Once({ (
        IF list = <<>>
        THEN s
        ELSE IF Len(list) = 1
        THEN LET message == Head(list)
                 sa == IF message.sequenceNumber <= s.lastQueuedSequenceNumber
                       THEN [s EXCEPT !.lowArrivals = @ + 1]
                       ELSE s
             IN  IF ~InOrder(sa, message)
                 THEN handleOutOfOrderMessage(sa, message)
                 ELSE [sa EXCEPT
                         !.lastQueuedSequenceNumber = message.sequenceNumber,
                         !.inbound = QueuePush(@, message)]
        ELSE LET half == Len(list) \div 2
             IN  enqueueLoop(enqueueLoop(s, SubSeq(list, 1, half)),
                             SubSeq(list, half + 1, Len(list)))
        ) : s \in {s0}, list \in {messages} })


\* enqueueMessages(messages)
enqueueMessages(s0, messages) ==
    Once({ (
        IF ~s.handler
        THEN [s EXCEPT !.pending = @ \o messages]
        ELSE enqueueLoop(s, messages)
        ) : s \in {s0} })

\* A comparison that sorts by descending sequence number.
BySequenceNumber_Descending(a, b) == a.sequenceNumber > b.sequenceNumber

\* The comparison of `this.pending.sort(...)` in catchUp.
BySequenceNumber(a, b) == a.sequenceNumber < b.sequenceNumber

\* catchUp that does not look at the pending messages again.
catchUp_NoPending(s, messages) == enqueueMessages(s, messages)

\* catchUp(messages)
catchUp(s0, messages) ==
    Once({ (
        LET s1 == enqueueMessages(s, messages)
        IN  IF s1.handler
            THEN LET pendingSorted == SortSeq(s1.pending, BySequenceNumber)
                 IN  enqueueMessages([s1 EXCEPT !.pending = <<>>], pendingSorted)
            ELSE s1
        ) : s \in {s0} })


\* attachOpHandler(minSequenceNumber, sequenceNumber, handler, resume)
attachOpHandler(s0, minSeq, seq, resume) ==
    Once({ (
        LET s1 == [s EXCEPT !.initSequenceNumber = seq,
                            !.baseSequenceNumber = seq,
                            !.minSequenceNumber = minSeq,
                            !.lastQueuedSequenceNumber = seq,
                            !.handler = TRUE]
        IN  IF resume
            THEN LET s2 == [s1 EXCEPT !.inbound = QueueResume(@),
                                      !.inboundSignal = QueueResume(@)]
                 IN  IF Len(s2.pending) > 0
                     THEN catchUp(s2, <<>>)
                     ELSE fetchMissingDeltas(s2, seq, NoTo)
            ELSE s1
        ) : s \in {s0} })


\* -------------------------------------------------------------- getDeltas

\* `let retryAfter: number = 0` at the top of each round of getDeltas.
RetryAfterInitial == 0

\* The exclusive upper bound of the batch getDeltas asks storage for.
FetchTo(from, to) ==
    IF to = NoTo THEN from + MaxBatchDeltas ELSE Min(from + MaxBatchDeltas, to)

\* A test that takes every batch for the last.
GetDeltasDone_Always(from, to, lastFetch) == TRUE

\* The test that ends getDeltas after a batch whose last sequence number is
\* lastFetch.
GetDeltasDone(from, to, lastFetch) ==
    IF to = NoTo THEN lastFetch < from + MaxBatchDeltas - 1
                 ELSE to - 1 <= lastFetch

\* The delay getDeltas sleeps before its next round.
FetchDelay(retryAfter, retry) ==
    IF retryAfter >= 0
    THEN retryAfter
    ELSE Min(MaxFetchDelay,
             IF retry # 0 THEN MissingFetchDelay * Pow2(retry) ELSE 0)

\* The continuation of fetchMissingDeltas once getDeltas returned `messages`.
getDeltasReturn(s0, messages) ==
    Once({ (
        catchUp([s EXCEPT !.fetching = FALSE,
                          !.gd = IdleGetDeltas,
                          !.arrived = @ + Len(messages)],
                messages)
        ) : s \in {s0} })


\* getDeltas after deltaStorage.get(from, fetchTo) returned `deltas`.
getDeltasOnDeltas(s0, deltas) ==
    Once({ (
        LET g == s.gd
            allDeltas == g.allDeltas \o deltas
            deltasRetrievedLast == Len(deltas)
            lastFetch == IF deltasRetrievedLast > 0
                         THEN deltas[deltasRetrievedLast].sequenceNumber
                         ELSE g.from
            done == GetDeltasDone(g.from, g.to, lastFetch)
            retry == IF deltasRetrievedLast = 0 THEN g.retry + 1 ELSE 0
            s1 == [s EXCEPT !.deltaStorageP = "resolved"]
        IN  IF done
            THEN getDeltasReturn(s1, allDeltas)
            ELSE [s1 EXCEPT !.gd = [ phase |-> "wait", from |-> lastFetch,
                                     to |-> g.to, allDeltas |-> allDeltas,
                                     retry |-> retry,
                                     hasRetryAfter |-> FALSE,
                                     delay |-> FetchDelay(RetryAfterInitial, retry) ]]
        ) : s \in {s0} })


\* getDeltas after deltaStorage.get threw (canRetry is true at that point).
getDeltasOnError(s0, error) ==
    Once({ (
        LET g == s.gd
            s1 == [s EXCEPT !.deltaStorageP = "resolved"]
            retry == g.retry + 1
            retryAfter == IF error.isObject /\ error.hasRetryAfter
                          THEN error.retryAfterSeconds
                          ELSE RetryAfterInitial
        IN  IF ~canRetryOnError(error)
            THEN getDeltasReturn(closeOnConnectionError(s1, error), <<>>)
            ELSE [s1 EXCEPT !.gd = [g EXCEPT !.phase = "wait", !.retry = retry,
                                             !.hasRetryAfter =
                                                 error.isObject /\ error.hasRetryAfter,
                                             !.delay = FetchDelay(retryAfter, retry)]]
        ) : s \in {s0} })


\* A getDeltas that sleeps and tries again when connectToDeltaStorage() failed.
getDeltasOnStorageConnectError_Retries(s0, error) ==
    [s0 EXCEPT !.deltaStorageP = "rejected",
               !.gd = [@ EXCEPT !.phase = "wait", !.retry = @ + 1]]

\* getDeltas after connectToDeltaStorage() failed (canRetry is still false).
getDeltasOnStorageConnectError(s0, error) ==
    Once({ (
        getDeltasReturn(
            closeOnConnectionError([s EXCEPT !.deltaStorageP = "rejected"], error),
            <<>>)
        ) : s \in {s0} })


\* getDeltas after waitForConnectedState(delay): the `while (!this.closed)` test.
getDeltasWake(s0) ==
    Once({ (
        IF s.closed
        THEN getDeltasReturn(s, <<>>)
        ELSE [s EXCEPT !.gd.phase = "get"]
        ) : s \in {s0} })


\* ----------------------------------------------------------- op contents
\* The content cache keeps the content messages in the order they were set;
\* peek(clientId) is the oldest one of that client, get(clientId) removes it,
\* and set evicts the oldest message when the cache is full and emits "content".
ContentIndex(cache, clientId) ==
    IF \E i \in 1..Len(cache) : cache[i].clientId = clientId
    THEN CHOOSE i \in 1..Len(cache) :
            /\ cache[i].clientId = clientId
            /\ \A j \in 1..(i - 1) : cache[j].clientId # clientId
    ELSE 0

ContentPeek(cache, clientId) ==
    IF ContentIndex(cache, clientId) = 0
    THEN <<>>
    ELSE <<cache[ContentIndex(cache, clientId)]>>

ContentGet(cache, clientId) ==
    LET i == ContentIndex(cache, clientId)
    IN  IF i = 0 THEN cache
        ELSE SubSeq(cache, 1, i - 1) \o SubSeq(cache, i + 1, Len(cache))

ContentSet(cache, content) ==
    Append(IF Len(cache) = DefaultContentBufferSize THEN Tail(cache) ELSE cache,
           content)

\* No fetchOpContent call was made.
NoFetchOp ==
    [ phase |-> "idle", op |-> <<>>, listening |-> FALSE, path |-> "none",
      result |-> <<>> ]

\* What fetchOpContent resolves with, and a failed assert.
Content(clientId, clientSeqNumber) ==
    [ kind |-> "content", clientId |-> clientId,
      clientSequenceNumber |-> clientSeqNumber ]

AssertFailed == [ kind |-> "assertion", clientId |-> 0, clientSequenceNumber |-> 0 ]

\* fetchOpContent: `nextContent = get(clientId)` until nextContent is undefined
\* or its clientSequenceNumber is not below the op's.
RECURSIVE SkipOlder(_, _, _)
SkipOlder(cache, clientId, clientSeqNumber) ==
    LET nextContent == ContentPeek(cache, clientId)
    IN  IF nextContent = <<>>
        THEN [ cache |-> cache, nextContent |-> <<>> ]
        ELSE IF nextContent[1].clientSequenceNumber < clientSeqNumber
             THEN SkipOlder(ContentGet(cache, clientId), clientId, clientSeqNumber)
             ELSE [ cache |-> ContentGet(cache, clientId), nextContent |-> nextContent ]

\* fetchOpContent(op) up to its first await; waitForContent registers the late
\* content handler and awaits fetchContent, which awaits getDeltas(seq, seq).
fetchOpContent(s0, op) ==
    Once({ (
        LET opContent == ContentPeek(s.contentCache, op.clientId)
            resolved(cache, result) ==
                [s EXCEPT !.contentCache = cache,
                          !.fetchOp = [ phase |-> "done", op |-> <<op>>,
                                        listening |-> FALSE, path |-> "cache",
                                        result |-> <<result>> ]]
        IN  IF \/ opContent = <<>>
               \/ opContent[1].clientSequenceNumber > op.clientSequenceNumber
            THEN [s EXCEPT !.fetchOp = [ phase |-> "fetching", op |-> <<op>>,
                                         listening |-> TRUE, path |-> "storage",
                                         result |-> <<>> ]]
            ELSE IF opContent[1].clientSequenceNumber < op.clientSequenceNumber
            THEN LET r == SkipOlder(ContentGet(s.contentCache, op.clientId),
                                    op.clientId, op.clientSequenceNumber)
                 IN  IF \/ r.nextContent = <<>>
                        \/ r.nextContent[1].clientSequenceNumber
                              # op.clientSequenceNumber
                     THEN resolved(r.cache, AssertFailed)
                     ELSE resolved(r.cache, Content(r.nextContent[1].clientId,
                                                    r.nextContent[1].clientSequenceNumber))
            ELSE resolved(ContentGet(s.contentCache, op.clientId),
                          Content(opContent[1].clientId,
                                  opContent[1].clientSequenceNumber))
        ) : s \in {s0} })

\* lateContentHandler(clId) of waitForContent: its return value goes to the
\* event emitter.
lateContentHandler(s0, clId) ==
    Once({ (
        LET lateContent == ContentPeek(s.contentCache, clId)
        IN  IF /\ s.fetchOp.listening
               /\ s.fetchOp.op[1].clientId = clId
               /\ lateContent # <<>>
               /\ lateContent[1].clientSequenceNumber
                     = s.fetchOp.op[1].clientSequenceNumber
            THEN [s EXCEPT !.fetchOp.listening = FALSE,
                           !.contentCache = ContentGet(@, clId)]
            ELSE s
        ) : s \in {s0} })

\* connection.on("op-content"): contentCache.set(message), which emits "content".
opContentListener(s0, message) ==
    Once({ (
        lateContentHandler([s EXCEPT !.contentCache = ContentSet(@, message)],
                           message.clientId)
        ) : s \in {s0} })

\* fetchContent after getDeltas(seqNumber, seqNumber) resolved with messages,
\* and the rest of waitForContent.
fetchContentOnDeltas(s0, messages) ==
    Once({ (
        LET op == s.fetchOp.op[1]
            result == IF Len(messages) = 0
                      THEN AssertFailed
                      ELSE IF \/ messages[1].clientId # op.clientId
                              \/ messages[1].clientSequenceNumber
                                    # op.clientSequenceNumber
                           THEN AssertFailed
                           ELSE Content(messages[1].clientId,
                                        messages[1].clientSequenceNumber)
        IN  [s EXCEPT !.fetchOp = [@ EXCEPT !.phase = "done", !.listening = FALSE,
                                            !.result = <<result>>]]
        ) : s \in {s0} })


\* ------------------------------------------------------------- connection
Attempt(phase, delay, mode) == [ phase |-> phase, delay |-> delay, mode |-> mode ]

\* connectCore(reason, delay, mode): DeltaConnection.connect is in flight.
connectCore(s0, delay, mode) ==
    Once({ (
        IF s.closed
        THEN s
        ELSE [s EXCEPT !.attempts = @ (+) SetToBag({Attempt("connecting", delay, mode)})]
        ) : s \in {s0} })


\* A connect() without its early returns: every call starts an attempt.
connect_AlwaysStarts(s0) ==
    connectCore([s0 EXCEPT !.connecting = TRUE], InitialReconnectDelay,
                s0.connectionMode)

\* connect(reason): the assertion fails on a closed manager; a call while
\* connecting or connected changes nothing; otherwise a Deferred is created and
\* an attempt started.
connect(s0) ==
    Once({ (
        IF s.closed \/ s.connecting \/ s.connection # NoConnection
        THEN s
        ELSE connectCore([s EXCEPT !.connecting = TRUE], InitialReconnectDelay,
                         s.connectionMode)
        ) : s \in {s0} })

\* What connect(reason) returns: a rejected promise when an assertion fails,
\* the promise of the pending Deferred, or the details of the live connection.
ConnectResult(kind, c) == [ kind |-> kind, connection |-> c ]

connectResult(s) ==
    IF s.closed THEN ConnectResult("rejected", NoConnection)
    ELSE IF s.connecting
         THEN IF s.connection # NoConnection
              THEN ConnectResult("rejected", NoConnection)
              ELSE ConnectResult("pending", NoConnection)
         ELSE IF s.connection # NoConnection
              THEN ConnectResult("details", s.connection)
              ELSE ConnectResult("pending", NoConnection)


\* contentCache.set(content) for each of contents, in order.
RECURSIVE setContents(_, _)
setContents(s0, contents) ==
    IF contents = <<>> THEN s0
    ELSE setContents(opContentListener(s0, Head(contents)), Tail(contents))

\* enqueInitalOps(messages, contents) of processInitialMessages, for details
\* that carry no initialSignals.
processInitialMessages(s0, messages, contents) ==
    Once({ (
        LET s1 == setContents(s, contents)
        IN  IF Len(messages) > 0
            THEN catchUp([s1 EXCEPT !.arrived = @ + Len(messages)], messages)
            ELSE s1
        ) : s \in {s0} })

\* emit("connect", details) at a moment when the manager is in state s; its
\* listeners see how much of the details' initial messages and contents was
\* handled since `before`.
emitConnect(s, before) ==
    [emit(s, "connect") EXCEPT
       !.handledAtConnect =
           (s.arrived - before.arrived)
           + (IF s.contentCache # before.contentCache \/ s.fetchOp # before.fetchOp
              THEN 1 ELSE 0)]

\* The connect event is emitted after the initial messages were handled.
connectSucceeded_EmitsLast(s0, a, detailsMode, initialMessages, initialContents) ==
    Once({ (
        LET c == s.nConn + 1
            s1 == [s EXCEPT
                     !.attempts = @ (-) SetToBag({a}),
                     !.nConn = c,
                     !.connOpen = @ \cup {c},
                     !.connection = c,
                     !.connectionMode = IF detailsMode = "undefined" THEN "write"
                                                                     ELSE detailsMode,
                     !.outbound = QueueResume(@),
                     !.clientSequenceNumber = 0,
                     !.clientSequenceNumberObserved = 0,
                     !.connecting = FALSE]
            s2 == processInitialMessages(s1, initialMessages, initialContents)
        IN  emitConnect(s2, s1)
        ) : s \in {s0} })


\* The success continuation of connectCore for attempt a: the service opened a
\* connection whose details carry `detailsMode`, `initialMessages` and
\* `initialContents`.
connectSucceeded(s0, a, detailsMode, initialMessages, initialContents) ==
    Once({ (
        LET c == s.nConn + 1
            s1 == [s EXCEPT
                     !.attempts = @ (-) SetToBag({a}),
                     !.nConn = c,
                     !.connOpen = @ \cup {c},
                     !.connection = c,
                     !.connectionMode = IF detailsMode = "undefined" THEN "write"
                                                                     ELSE detailsMode,
                     !.outbound = QueueResume(@),
                     !.clientSequenceNumber = 0,
                     !.clientSequenceNumberObserved = 0,
                     !.connecting = FALSE]
        IN  processInitialMessages(emitConnect(s1, s1), initialMessages,
                                   initialContents)
        ) : s \in {s0} })


\* A ladder that never climbs.
ReconnectDelay_NoDoubling(delay, error) ==
    IF error.isObject /\ error.hasRetryAfter THEN error.retryAfterSeconds ELSE delay

\* The delay before the next connection attempt.
ReconnectDelay(delay, error) ==
    IF error.isObject /\ error.hasRetryAfter
    THEN error.retryAfterSeconds
    ELSE Min(delay * 2, MaxReconnectDelay)

\* The failure continuation of connectCore for attempt a.
connectFailed(s0, a, error) ==
    Once({ (
        LET s1 == [s EXCEPT !.attempts = @ (-) SetToBag({a})]
        IN  IF ~canRetryOnError(error)
            THEN closeOnConnectionError(s1, error)
            ELSE [s1 EXCEPT !.attempts =
                    @ (+) SetToBag({Attempt("waiting", ReconnectDelay(a.delay, error),
                                            a.mode)})]
        ) : s \in {s0} })


\* waitForConnectedState(delayNext).then(() => this.connectCore(...))
connectRetry(s0, a) ==
    Once({ (
        connectCore([s EXCEPT !.attempts = @ (-) SetToBag({a})], a.delay, a.mode)
        ) : s \in {s0} })


\* A test that takes every connection for the current one.
IsCurrentConnection_Always(s, c) == TRUE

\* The test of reconnectOnError for an event of the current connection.
IsCurrentConnection(s, c) == c = s.connection

\* A reconnectOnError that reconnects whatever the client, the state and the error.
reconnectOnError_AlwaysReconnects(s0, c, mode, error) ==
    IF s0.connection # c
    THEN s0
    ELSE [emit(s0, "disconnect") EXCEPT
             !.connection = NoConnection,
             !.connectionMode = "read",
             !.outbound = QueueClear(QueuePause(@)),
             !.connOpen = @ \ {c},
             !.attempts = @ (+) SetToBag({Attempt("connecting", InitialReconnectDelay,
                                                   mode)})]

\* reconnectOnError(reason, connection, mode, error)
reconnectOnError(s0, c, mode, error) ==
    Once({ (
        IF ~IsCurrentConnection(s, c)
        THEN s
        ELSE LET s1 == [emit(s, "disconnect") EXCEPT
                                 !.connection = NoConnection,
                                 !.connectionMode = "read",
                                 !.outbound = QueueClear(QueuePause(@)),
                                 !.connOpen = @ \ {c}]
             IN  IF ~s1.canReconnect \/ s1.closed \/ ~canRetryOnError(error)
                 THEN closeOnConnectionError(s1, error)
                 ELSE connectCore(s1, InitialReconnectDelay, mode)
        ) : s \in {s0} })


\* ------------------------------------------------------ message processing

\* MsnAssertion left out.
MsnAssertion_Missing(s, message) == TRUE

\* assert(this.minSequenceNumber <= message.minimumSequenceNumber)
MsnAssertion(s, message) == s.minSequenceNumber <= message.minimumSequenceNumber

\* assert.equal(message.sequenceNumber, this.baseSequenceNumber + 1)
SeqAssertion(s, message) == message.sequenceNumber = s.baseSequenceNumber + 1

\* processMessage(message, callback) up to the call of handler.process; a failed
\* assertion is caught by the worker of the inbound queue and fails the queue.
processMessage(s0, message) ==
    Once({ (
        LET own == [s EXCEPT !.clientSequenceNumberObserved =
                                 message.clientSequenceNumber]
            s1 == IF s.connection # NoConnection /\ s.connection = message.clientId
                  THEN IF message.clientSequenceNumber = s.clientSequenceNumber
                       THEN emit(own, "allSentOpsAckd")
                       ELSE own
                  ELSE s
        IN  IF ~MsnAssertion(s1, message)
            THEN emit([s1 EXCEPT !.inbound = QueueFail(@)], "error")
            ELSE LET s2 == [s1 EXCEPT !.minSequenceNumber =
                                          message.minimumSequenceNumber]
                 IN  IF ~SeqAssertion(s2, message)
                     THEN emit([s2 EXCEPT !.inbound = QueueFail(@)], "error")
                     ELSE [s2 EXCEPT !.baseSequenceNumber = message.sequenceNumber,
                                     !.delivered = Append(@, message)]
        ) : s \in {s0} })


\* TimerNotArmed without the test.
TimerNotArmed_Always(s) == TRUE

\* The test of scheduleSequenceNumberUpdate before it arms the timer.
TimerNotArmed(s) == ~s.updateSequenceNumberTimer

\* TimerSubmits without the test.
TimerSubmits_Always(s) == TRUE

\* The test of the timer callback before it submits the NoOp.
TimerSubmits(s) == active(s)

\* The test scheduleSequenceNumberUpdate starts with.
SchedulerActive(s) == active(s)

\* scheduleSequenceNumberUpdate(message, immediateNoOp)
scheduleSequenceNumberUpdate(s0, message, immediateNoOp) ==
    Once({ (
        IF ~SchedulerActive(s)
        THEN stopSequenceNumberUpdate(s)
        ELSE IF immediateNoOp
             THEN submit(stopSequenceNumberUpdate(s), "noop", "immediate", FALSE)
             ELSE IF message.type = "noop"
                  THEN s
                  ELSE IF TimerNotArmed(s)
                       THEN [s EXCEPT !.updateSequenceNumberTimer = TRUE,
                                      !.liveTimers = @ + 1]
                       ELSE s
        ) : s \in {s0} })


\* The callback of setTimeout in scheduleSequenceNumberUpdate.
timerFired(s0) ==
    Once({ (
        LET s1 == [s EXCEPT !.updateSequenceNumberTimer = FALSE,
                            !.liveTimers = @ - 1]
        IN  IF TimerSubmits(s1)
            THEN submit(s1, "noop", "null", FALSE)
            ELSE [s1 EXCEPT !.firedInactive = TRUE]
        ) : s \in {s0} })


\* The callback handler.process calls with its result.
processCallback(s0, result) ==
    Once({ (
        IF result = "error"
        THEN emit([s EXCEPT !.inbound = QueueFail(@)], "error")
        ELSE LET s1 == scheduleSequenceNumberUpdate(s, s.inbound.cur[1],
                                                    result = "immediateNoOp")
             IN  [s1 EXCEPT !.inbound = QueueDone(@)]
        ) : s \in {s0} })


\* The worker of the signal queue: handler!.processSignal(...); callback().
\* Without a handler the call throws and the queue fails.
signalWorker(s0) ==
    Once({ (
        IF ~s.handler
        THEN emit([s EXCEPT !.inboundSignal = [@ EXCEPT !.q = Tail(@), !.error = TRUE]],
                  "error")
        ELSE [s EXCEPT !.inboundSignal = [@ EXCEPT !.q = Tail(@)],
                       !.processedSignals = @ + 1]
        ) : s \in {s0} })

\* The worker of the outbound queue: connection.submit(messages).  Without a
\* connection `this.connection!.submit` throws and the queue fails.
SentOver(c, batch) ==
    [ i \in 1..Len(batch) |->
        [ connection |-> c,
          clientSequenceNumber |-> batch[i].clientSequenceNumber,
          type |-> batch[i].type,
          data |-> batch[i].data ] ]

outboundWorker(s0) ==
    Once({ (
        LET batch == Head(s.outbound.q)
        IN  IF s.connection = NoConnection
            THEN emit([s EXCEPT !.outbound = [@ EXCEPT !.q = Tail(@), !.error = TRUE]],
                      "error")
            ELSE [s EXCEPT !.outbound = [@ EXCEPT !.q = Tail(@)],
                           !.sent = @ \o SentOver(s.connection, batch)]
        ) : s \in {s0} })


\* ============================================================ EpochTracker
\* The tracker wraps the fetch calls of one file: it learns the file's epoch
\* from the responses, compares every later response with it and purges the
\* file's cache entries on a mismatch.

\* `undefined` (and null) for an epoch
Undefined == "undefined"

Epochs == {"e1", "e2"}

\* new RateLimiter(24)
MaxConcurrentRequests == 24
\* new ThrottlingError(error.errorMessage, 1000, 429)
CoherencyRetryAfterMs == 1000
CoherencyStatusCode == 429
\* fluidEpochMismatchError, the status throwOdspNetworkError maps to epochVersionMismatch
fluidEpochMismatchError == 409

\* The tracker as one record.
Tracker ==
    [ fluidEpoch |-> fluidEpoch, fileEntry |-> fileEntry,
      treesLatestDeferral |-> treesLatestDeferral,
      withRedemption |-> withRedemption, requests |-> requests,
      removeEntriesCalls |-> removeEntriesCalls, outcomes |-> outcomes,
      learnedEvents |-> learnedEvents,
      nRequests |-> nRequests ]

\* The tracker's next state is the record t0; the DeltaManager is not involved.
TrackerBecomes(t0) ==
    \E t \in {t0} :
    /\ fluidEpoch' = t.fluidEpoch
    /\ fileEntry' = t.fileEntry
    /\ treesLatestDeferral' = t.treesLatestDeferral
    /\ withRedemption' = t.withRedemption
    /\ requests' = t.requests
    /\ removeEntriesCalls' = t.removeEntriesCalls
    /\ outcomes' = t.outcomes
    /\ learnedEvents' = t.learnedEvents
    /\ nRequests' = t.nRequests
    /\ UNCHANGED dmVars

\* Error objects: errorType, statusCode and, for a throttling error, retryAfterMs.
NetworkError(errorType, statusCode) ==
    [ errorType |-> errorType, statusCode |-> statusCode, retryAfterMs |-> 0 ]

NoFetchError == NetworkError("none", 0)

\* throwOdspNetworkError(message, fluidEpochMismatchError)
EpochMismatchError == NetworkError("epochVersionMismatch", fluidEpochMismatchError)

ThrottlingError(retryAfterMs, statusCode) ==
    [ errorType |-> "throttlingError", statusCode |-> statusCode,
      retryAfterMs |-> retryAfterMs ]

\* A failed assert()
AssertionError == NetworkError("assertion", 0)

\* The Deferred of DeferralWithCallback: pending, resolved, or rejected with an error.
NewDeferred == [ state |-> "pending", error |-> NoFetchError ]

DeferredResolve(d) == IF d.state = "pending" THEN [d EXCEPT !.state = "resolved"] ELSE d

DeferredReject(d, error) ==
    IF d.state = "pending" THEN [ state |-> "rejected", error |-> error ] ELSE d

\* A call of fetchAndParseAsJSON (api "json") or fetchResponse (api "response"):
\* `completed` is the local of the redemption wrapper, `attempt` counts the
\* calls of the base method this call has made, `phase` is where it waits:
\* queued in the rate limiter, fetching, purging (removeEntries) or awaiting the
\* deferral.
Request(fetchType, api, completed) ==
    [ fetchType |-> fetchType, api |-> api, completed |-> completed, attempt |-> 1,
      phase |-> "queued", error |-> NoFetchError ]

Outstanding(t) == { r \in BagToSet(t.requests) : r.phase = "fetching" }

\* Requests the rate limiter is running.
Running(t) ==
    LET S == Outstanding(t)
        RECURSIVE Sum(_)
        Sum(X) == IF X = {} THEN 0
                  ELSE LET x == CHOOSE y \in X : TRUE
                       IN  CopiesIn(x, t.requests) + Sum(X \ {x})
    IN  Sum(S)

Without(t, r) == [t EXCEPT !.requests = @ (-) SetToBag({r})]

With(t, r) == [t EXCEPT !.requests = @ (+) SetToBag({r})]

\* The caller of request r receives a response or an error.
Deliver(t, r, ok, epoch, error) ==
    [t EXCEPT !.outcomes = @ (+) SetToBag({[ fetchType |-> r.fetchType,
                                             attempt |-> r.attempt, ok |-> ok,
                                             epoch |-> epoch, error |-> error ]})]

\* checkForEpochErrorCore that never throws.
checkForEpochErrorCore_Never(t, epochFromResponse) == FALSE

\* checkForEpochErrorCore(epochFromResponse): TRUE when it throws.
checkForEpochErrorCore(t, epochFromResponse) ==
    /\ t.fluidEpoch # Undefined
    /\ epochFromResponse # Undefined
    /\ t.fluidEpoch # epochFromResponse

\* A validation that adopts whatever epoch the response carries.
validateEpochFromResponse_Overwrites(t, epochFromResponse) ==
    [t EXCEPT !.fluidEpoch = epochFromResponse,
              !.treesLatestDeferral = IF t.withRedemption THEN DeferredResolve(@)
                                                          ELSE @]

\* validateEpochFromResponse once checkForEpochErrorCore has passed; the
\* redemption tracker then resolves its deferral.
validateEpochFromResponse(t, epochFromResponse) ==
    [t EXCEPT !.learnedEvents = IF epochFromResponse # Undefined
                                   /\ t.fluidEpoch = Undefined
                                THEN @ + 1 ELSE @,
              !.fluidEpoch = IF epochFromResponse # Undefined
                             THEN epochFromResponse ELSE @,
              !.treesLatestDeferral = IF t.withRedemption THEN DeferredResolve(@)
                                                          ELSE @]

\* A catch block that rejects the deferral whatever call failed.
thrown_RejectsAlways(t, r, error) ==
    IF ~(t.withRedemption /\ r.api = "json" /\ r.attempt = 1)
    THEN Deliver(t, r, FALSE, Undefined, error)
    ELSE LET t1 == [t EXCEPT !.treesLatestDeferral = DeferredReject(@, error)]
         IN  IF r.fetchType # "joinSession" \/ error.statusCode # 404 \/ r.completed
             THEN Deliver(t1, r, FALSE, Undefined, error)
             ELSE With(t1, [r EXCEPT !.phase = "awaiting"])

\* An error leaves the base fetchAndParseAsJSON / fetchResponse: it reaches the
\* caller, or the catch block of the redemption wrapper on its first attempt.
thrown(t, r, error) ==
    IF ~(t.withRedemption /\ r.api = "json" /\ r.attempt = 1)
    THEN Deliver(t, r, FALSE, Undefined, error)
    ELSE LET t1 == IF r.fetchType = "treesLatest"
                   THEN [t EXCEPT !.treesLatestDeferral = DeferredReject(@, error)]
                   ELSE t
         IN  IF r.fetchType # "joinSession" \/ error.statusCode # 404 \/ r.completed
             THEN Deliver(t1, r, FALSE, Undefined, error)
             ELSE With(t1, [r EXCEPT !.phase = "awaiting"])

\* The error a coherency 409 is translated to.
Coherency409Rethrown(error) == error

Coherency409(error) == ThrottlingError(CoherencyRetryAfterMs, CoherencyStatusCode)

\* The catch block of the base methods: checkForEpochError(error,
\* epochFromResponse), then `throw error`.
catchBlock(t, r, error, epochFromResponse) ==
    IF error.errorType = "epochVersionMismatch"
    THEN IF checkForEpochErrorCore(t, epochFromResponse)
         THEN IF ~t.fileEntry
              THEN thrown(t, r, AssertionError)
              ELSE With([t EXCEPT !.removeEntriesCalls = @ + 1],
                        [r EXCEPT !.phase = "purging", !.error = EpochMismatchError])
         ELSE thrown(t, r, Coherency409(error))
    ELSE thrown(t, r, error)

\* fetchAndParseAsJSON / fetchResponse up to rateLimiter.schedule.
fetchStart(t, fetchType, api) ==
    With([t EXCEPT !.nRequests = @ + 1],
         Request(fetchType, api,
                 t.withRedemption /\ api = "json"
                    /\ t.treesLatestDeferral.state # "pending"))

\* A rate limiter that hands out a permit whenever asked.
HasPermit_Always(t) == TRUE

\* The rate limiter has a permit to hand out.
HasPermit(t) == Running(t) < MaxConcurrentRequests

\* The rate limiter runs the task of r.
rateLimiterRun(t, r) == With(Without(t, r), [r EXCEPT !.phase = "fetching"])

\* The fetch of r returned a response whose x-fluid-epoch header is epoch.
fetchSucceeded(t0, r, epoch) ==
    LET t == Without(t0, r)
    IN  IF checkForEpochErrorCore(t, epoch)
        THEN catchBlock(t, r, EpochMismatchError, epoch)
        ELSE Deliver(validateEpochFromResponse(t, epoch), r, TRUE, epoch, NoFetchError)

\* fetchFromCache up to `await this.persistedCache.get`.
cacheStart(t, fetchType) ==
    With([t EXCEPT !.nRequests = @ + 1],
         [Request(fetchType, "cache", FALSE) EXCEPT !.phase = "reading"])

\* A fetchFromCache that returns whatever the cache holds.
cacheRead_Unvalidated(t0, r, cached) ==
    Deliver(Without(t0, r), r, TRUE,
            IF cached = <<>> THEN Undefined ELSE cached[1].fluidEpoch, NoFetchError)

\* persistedCache.get resolved for r: with nothing (cached = <<>>), or with an
\* entry whose fluidEpoch is validated like the epoch of a response.
cacheRead(t0, r, cached) ==
    IF cached = <<>>
    THEN Deliver(Without(t0, r), r, TRUE, Undefined, NoFetchError)
    ELSE fetchSucceeded(t0, r, cached[1].fluidEpoch)

\* A validateEpochFromPush call.
PushRequest == [Request("push", "push", FALSE) EXCEPT !.phase = "validating"]

\* validateEpochFromPush(details) up to its first await: the assert, the
\* validation and, on a mismatch, checkForEpochError.
validateEpochFromPush(t, epoch) ==
    LET r == PushRequest
        t1 == [t EXCEPT !.nRequests = @ + 1]
    IN  IF epoch = Undefined
        THEN Deliver(t1, r, FALSE, Undefined, AssertionError)
        ELSE fetchSucceeded(With(t1, r), r, epoch)

\* The fetch of r threw: epochFromResponse was never assigned.
fetchFailed(t0, r, error) == catchBlock(Without(t0, r), r, error, Undefined)

\* persistedCache.removeEntries resolved: `throw epochError`.
purgeDone(t0, r) == thrown(Without(t0, r), r, r.error)

\* A wrapper that repeats the call however the deferral was settled.
deferralSettled_AlwaysRetries(t0, r) ==
    With(Without(t0, r), [r EXCEPT !.phase = "queued", !.attempt = 2])

\* The redemption wrapper after `await triggerCallbackAndAwaitPromise()`: the
\* second call of the base method, or the rejection of the deferral.
deferralSettled(t0, r) ==
    LET t == Without(t0, r)
    IN  IF t.treesLatestDeferral.state = "resolved"
        THEN With(t, [r EXCEPT !.phase = "queued", !.attempt = 2])
        ELSE Deliver(t, r, FALSE, Undefined, t.treesLatestDeferral.error)

\* The tracker after construction.
TrackerConstructed(redemption) ==
    /\ fluidEpoch = Undefined
    /\ fileEntry = FALSE
    /\ treesLatestDeferral = NewDeferred
    /\ withRedemption = redemption
    /\ requests = EmptyBag
    /\ removeEntriesCalls = 0
    /\ outcomes = EmptyBag
    /\ learnedEvents = 0
    /\ nRequests = 0

\* ------------------------------------------------------------------ Init

\* The state after `new DeltaManager(service, client, logger, reconnect)`; the
\* server's stream is st.
ManagerConstructed(st, sysMode, reconn) ==
    /\ closed = FALSE
    /\ handler = FALSE
    /\ pending = <<>>
    /\ fetching = FALSE
    /\ inQuorum = FALSE
    /\ updateSequenceNumberTimer = FALSE
    /\ minSequenceNumber = 0
    /\ lastQueuedSequenceNumber = 0
    /\ baseSequenceNumber = 0
    /\ initSequenceNumber = 0
    /\ inboundPending = NewQueue
    /\ inbound = QueuePause(NewQueue)
    /\ inboundSignal = QueuePause(NewQueue)
    /\ outbound = QueuePause(NewQueue)
    /\ connecting = FALSE
    /\ connection = NoConnection
    /\ connectionMode = "write"
    /\ systemConnectionMode = sysMode
    /\ canReconnect = reconn
    /\ clientSequenceNumber = 0
    /\ clientSequenceNumberObserved = 0
    /\ messageBuffer = <<>>
    /\ duplicateMsgCount = 0
    /\ contentCache = <<>>
    /\ fetchOp = NoFetchOp
    /\ deltaStorageP = "unset"
    /\ attempts = EmptyBag
    /\ gd = IdleGetDeltas
    /\ liveTimers = 0
    /\ stream = st
    /\ nConn = 0
    /\ connOpen = {}
    /\ delivered = <<>>
    /\ processedSignals = 0
    /\ sent = <<>>
    /\ arrived = 0
    /\ lowArrivals = 0
    /\ nSubmit = 0
    /\ firedInactive = FALSE
    /\ lastEvent = "none"
    /\ handledAtConnect = 0

\* A manager together with a plain EpochTracker.
Constructed(st, sysMode, reconn) ==
    /\ ManagerConstructed(st, sysMode, reconn)
    /\ TrackerConstructed(FALSE)

\* A stream of other clients' operations whose minimum sequence number is 1
\* everywhere except at sequence number dropAt, where it is 0 (dropAt = 0: nowhere).
MsnStream(dropAt) ==
    [ n \in 1..MaxSeq |->
        [ minimumSequenceNumber |-> IF n = dropAt THEN 0 ELSE 1,
          type |-> "op", clientId |-> 0, clientSequenceNumber |-> 0,
          contents |-> "x" ] ]

\* A stream of other clients' messages with constant minimum sequence number 0
\* whose message at sequence number noopAt is a NoOp (noopAt = 0: none is).
TypeStream(noopAt) ==
    [ n \in 1..MaxSeq |->
        [ minimumSequenceNumber |-> 0,
          type |-> IF n = noopAt THEN "noop" ELSE "op",
          clientId |-> 0, clientSequenceNumber |-> 0, contents |-> "x" ] ]

AllMessages == { Msg(stream, n) : n \in 1..MaxSeq }

\* --------------------------------------------------------------- actions

\* The application attaches the handler.
AttachOpHandler(minSeq, seq, resume) ==
    /\ ~handler
    /\ Becomes(attachOpHandler(State, minSeq, seq, resume))

\* The application calls connect().
Connect ==
    /\ Becomes(connect(State))

\* DeltaConnection.connect resolves for attempt a.
ConnectDetails(a, detailsMode, initialMessages, initialContents) ==
    /\ BagIn(a, attempts)
    /\ a.phase = "connecting"
    /\ nConn < MaxConn
    /\ arrived + Len(initialMessages) <= MaxArrived
    /\ Becomes(connectSucceeded(State, a, detailsMode, initialMessages,
                                 initialContents))

\* The same, for details without initialContents.
ConnectSuccess(a, detailsMode, initialMessages) ==
    ConnectDetails(a, detailsMode, initialMessages, <<>>)

\* DeltaConnection.connect rejects for attempt a.
ConnectFailure(a, error) ==
    /\ BagIn(a, attempts)
    /\ a.phase = "connecting"
    /\ Becomes(connectFailed(State, a, error))

\* The delay before the next attempt has passed.
ConnectRetry(a) ==
    /\ BagIn(a, attempts)
    /\ a.phase = "waiting"
    /\ Becomes(connectRetry(State, a))

\* Connection c emits "op" with messages.
SocketOp(c, messages) ==
    /\ c \in connOpen
    /\ arrived + Len(messages) <= MaxArrived
    /\ Becomes(enqueueMessages([State EXCEPT !.arrived = @ + Len(messages)],
                               messages))

\* A nack listener that reconnects in the system's mode, as the disconnect
\* listener does.
Nack_SystemMode(c) ==
    /\ c \in 1..nConn
    /\ Becomes(reconnectOnError(State, c, systemConnectionMode, NoError))

\* Connection c emits "nack": always reconnect in write mode.
Nack(c) ==
    /\ c \in 1..nConn
    /\ Becomes(reconnectOnError(State, c, "write", NoError))

\* Connection c emits "disconnect".
Disconnect(c) ==
    /\ c \in 1..nConn
    /\ Becomes(reconnectOnError(State, c, systemConnectionMode, NoError))

\* Connection c emits "error".
ConnectionError(c, error) ==
    /\ c \in 1..nConn
    /\ Becomes(reconnectOnError(State, c, systemConnectionMode, error))

\* deltaStorage.get resolves with the messages gd.from+1 .. hi of the stream
\* (fewer or more than asked for).
GetDeltasResponse(hi) ==
    /\ gd.phase = "get"
    /\ hi \in gd.from..Len(stream)
    /\ hi > gd.from \/ gd.to = NoTo \/ gd.retry < MaxRetry
    /\ Becomes(getDeltasOnDeltas(State, Range(stream, gd.from, hi)))

\* deltaStorage.get rejects.
GetDeltasError(error) ==
    /\ gd.phase = "get"
    /\ canRetryOnError(error) => gd.retry < MaxRetry
    /\ Becomes(getDeltasOnError(State, error))

\* connectToDeltaStorage() rejects.
GetDeltasStorageConnectError(error) ==
    /\ gd.phase = "get"
    /\ deltaStorageP = "pending"
    /\ Becomes(getDeltasOnStorageConnectError(State, error))

\* The sleep of getDeltas is over.
GetDeltasWake ==
    /\ gd.phase = "wait"
    /\ Becomes(getDeltasWake(State))

\* The worker of the inbound queue takes the next message.
InboundWorker ==
    /\ QueueReady(inbound)
    /\ Becomes(processMessage([State EXCEPT !.inbound = QueueTake(@)],
                              Head(inbound.q)))

\* The handler calls back with its result.
ProcessCallback(result) ==
    /\ inbound.processing
    /\ Becomes(processCallback(State, result))

\* Connection c emits "signal".
SocketSignal(c) ==
    /\ c \in connOpen
    /\ Len(inboundSignal.q) + processedSignals < MaxSignals
    /\ Becomes([State EXCEPT !.inboundSignal = QueuePush(@, "signal")])

\* The worker of the signal queue takes the next signal.
SignalWorker ==
    /\ QueueReady(inboundSignal)
    /\ Becomes(signalWorker(State))

\* The worker of the outbound queue takes the next batch.
OutboundWorker ==
    /\ QueueReady(outbound)
    /\ Becomes(outboundWorker(State))

\* The application submits an operation.
Submit(batch) ==
    /\ nSubmit < MaxSubmit
    /\ Becomes(submit([State EXCEPT !.nSubmit = @ + 1], "op", "x", batch))

\* The application flushes the message buffer.
Flush ==
    /\ messageBuffer # <<>>
    /\ Becomes(flush(State))

UpdateQuorumJoin ==
    /\ ~inQuorum
    /\ Becomes([State EXCEPT !.inQuorum = TRUE])

UpdateQuorumLeave ==
    /\ inQuorum
    /\ Becomes([State EXCEPT !.inQuorum = FALSE])

\* The acknowledgement timer fires.
TimerFire ==
    /\ liveTimers > 0
    /\ Becomes(timerFired(State))

\* The application, or the container on an error, closes the manager.
Close ==
    /\ Becomes(close(State))

\* Connection c emits "op-content" with the contents of the stream's message n.
OpContent(c, n) ==
    /\ c \in connOpen
    /\ \A i \in 1..Len(contentCache) :
          contentCache[i].clientId = stream[n].clientId
              => contentCache[i].clientSequenceNumber < stream[n].clientSequenceNumber
    /\ Becomes(opContentListener(State,
            [ clientId |-> stream[n].clientId,
              clientSequenceNumber |-> stream[n].clientSequenceNumber,
              contents |-> "x" ]))

\* The contents of the stream's message n are to be resolved; the messages are
\* resolved one at a time, in the order of their sequence numbers.
FetchOpContent(n) ==
    /\ fetchOp.phase # "fetching"
    /\ IF fetchOp.op = <<>> THEN TRUE ELSE fetchOp.op[1].sequenceNumber < n
    /\ Becomes(fetchOpContent(State, Msg(stream, n)))

\* getDeltas(seq, seq) of fetchContent resolves: at once with [] when the
\* manager is closed; otherwise storage.get(seq, seq) answered with the messages
\* above seq up to hi, which ends getDeltas.
FetchContentResponse(hi) ==
    /\ fetchOp.phase = "fetching"
    /\ LET seqNumber == fetchOp.op[1].sequenceNumber
           deltas == IF closed THEN <<>> ELSE Range(stream, seqNumber, hi)
           lastFetch == IF Len(deltas) > 0 THEN deltas[Len(deltas)].sequenceNumber
                                           ELSE seqNumber
       IN  /\ hi \in FetchTo(seqNumber, seqNumber)..Len(stream)
           /\ closed \/ GetDeltasDone(seqNumber, seqNumber, lastFetch)
           /\ Becomes(fetchContentOnDeltas(State, deltas))

\* ------------------------------------------------------ tracker actions

\* The driver sets the file entry (asserted to happen only once).
SetFileEntry ==
    /\ ~fileEntry
    /\ TrackerBecomes([Tracker EXCEPT !.fileEntry = TRUE])

\* A caller calls fetchAndParseAsJSON or fetchResponse.
FetchStart(fetchType, api) ==
    TrackerBecomes(fetchStart(Tracker, fetchType, api))

\* The rate limiter has a free slot and runs the task of a waiting request.
RateLimiterRun(r) ==
    /\ BagIn(r, requests)
    /\ r.phase = "queued"
    /\ HasPermit(Tracker)
    /\ TrackerBecomes(rateLimiterRun(Tracker, r))

\* The server answers request r with a response that carries epoch.
FetchSuccess(r, epoch) ==
    /\ BagIn(r, requests)
    /\ r.phase = "fetching"
    /\ TrackerBecomes(fetchSucceeded(Tracker, r, epoch))

\* The fetch helper throws error for request r; the response it read carried
\* epoch, which the tracker never gets to see.
FetchFailure(r, error, epoch) ==
    /\ BagIn(r, requests)
    /\ r.phase = "fetching"
    /\ TrackerBecomes(fetchFailed(Tracker, r, error))

\* A caller calls fetchFromCache.
CacheStart(fetchType) ==
    TrackerBecomes(cacheStart(Tracker, fetchType))

\* persistedCache.get resolves for r with the entry `cached`, or with none.
CacheRead(r, cached) ==
    /\ BagIn(r, requests)
    /\ r.phase = "reading"
    /\ TrackerBecomes(cacheRead(Tracker, r, cached))

\* The socket connected with details that carry epoch.
PushConnected(epoch) ==
    TrackerBecomes(validateEpochFromPush(Tracker, epoch))

\* persistedCache.removeEntries resolves.
PurgeDone(r) ==
    /\ BagIn(r, requests)
    /\ r.phase = "purging"
    /\ TrackerBecomes(purgeDone(Tracker, r))

\* The deferral a joinSession call awaits is settled.
DeferralSettled(r) ==
    /\ BagIn(r, requests)
    /\ r.phase = "awaiting"
    /\ treesLatestDeferral.state # "pending"
    /\ TrackerBecomes(deferralSettled(Tracker, r))

\* ---------------------------------------------------------- specifications

AttachInputs == { <<0, 0>>, <<1, 1>> }

Singles == { <<m>> : m \in AllMessages }

InFlight == BagToSet(attempts)

\* Ordering and gap recovery: a connected client, any arrival order on the
\* socket, any storage behaviour, close at any time.
Init ==
    \E dropAt \in {0, 2} : Constructed(MsnStream(dropAt), "write", TRUE)

Next ==
    \/ \E i \in AttachInputs, resume \in BOOLEAN :
          AttachOpHandler(i[1], i[2], resume)
    \/ Connect
    \/ \E a \in InFlight, initial \in {<<>>} \cup Singles :
          ConnectSuccess(a, a.mode, initial)
    \/ \E c \in connOpen, messages \in Singles : SocketOp(c, messages)
    \/ \E hi \in 0..MaxSeq : GetDeltasResponse(hi)
    \/ \E error \in Errors : GetDeltasError(error)
    \/ \E error \in Errors : GetDeltasStorageConnectError(error)
    \/ GetDeltasWake
    \/ InboundWorker
    \/ \E result \in {"ok", "error"} : ProcessCallback(result)
    \/ Close

Spec == Init /\ [][Next]_vars

\* Gap recovery with the scheduling the runtime guarantees.  One client attaches
\* its handler at sequence number 0 with the inbound queue resumed and connects;
\* messages arrive from the socket in any order; storage answers with any part
\* of the stream or with an error; the manager may be closed at any time.
InitLive == Constructed(MsnStream(0), "write", TRUE)

\* The socket delivers the first and the last message of the stream, in any
\* order and any number of times; the messages between them come from storage.
SocketLive == { <<Msg(stream, 1)>>, <<Msg(stream, MaxSeq)>> }

NextLive ==
    \/ AttachOpHandler(0, 0, TRUE)
    \/ Connect
    \/ \E a \in InFlight : ConnectSuccess(a, a.mode, <<>>)
    \/ \E c \in connOpen, messages \in SocketLive : SocketOp(c, messages)
    \/ \E hi \in 0..MaxSeq : GetDeltasResponse(hi)
    \/ \E error \in Errors : GetDeltasError(error)
    \/ GetDeltasWake
    \/ InboundWorker
    \/ ProcessCallback("ok")
    \/ Close

\* A ready queue worker runs, the handler calls back, a sleeping getDeltas wakes
\* up, and storage, asked again and again, eventually returns all it has.
Fairness ==
    /\ WF_vars(InboundWorker)
    /\ WF_vars(ProcessCallback("ok"))
    /\ WF_vars(GetDeltasWake)
    /\ SF_vars(GetDeltasResponse(MaxSeq))

FairSpec == InitLive /\ [][NextLive]_vars /\ Fairness

\* Connections and the outbound pipeline: connect() calls, attempts that succeed
\* or fail, nack, disconnect and error events of any connection opened so far,
\* submit (batched or not), flush, the outbound worker, close at any time.
ConnErrors == { e \in Errors : ~e.hasRetryAfter /\ e.canRetry \in {"true", "false"} }

InitConn == \E reconn \in BOOLEAN : Constructed(MsnStream(0), "read", reconn)

\* An attempt that has failed fewer than MaxLadder times.
EarlyAttempt(a) == a.delay < InitialReconnectDelay * Pow2(MaxLadder)

NextConn ==
    \/ Connect
    \/ \E a \in InFlight : ConnectSuccess(a, a.mode, <<>>)
    \/ \E a \in InFlight, error \in ConnErrors :
          EarlyAttempt(a) /\ ConnectFailure(a, error)
    \/ \E a \in InFlight : ConnectRetry(a)
    \/ \E c \in 1..nConn : Nack(c)
    \/ \E c \in 1..nConn : Disconnect(c)
    \/ \E c \in 1..nConn, error \in ConnErrors : ConnectionError(c, error)
    \/ \E batch \in BOOLEAN : Submit(batch)
    \/ Flush
    \/ OutboundWorker
    \/ Close

SpecConn == InitConn /\ [][NextConn]_vars

\* The acknowledgement scheduler: the handler is attached at sequence number 0,
\* the socket delivers the stream in order, the handler calls back with or
\* without a request for an immediate NoOp, the client joins and leaves the
\* quorum, connects in either mode, is disconnected, submits, and is closed at
\* any time; timers fire at any time after they were armed.
SocketNext ==
    IF lastQueuedSequenceNumber < MaxSeq
    THEN { <<Msg(stream, lastQueuedSequenceNumber + 1)>> }
    ELSE {}

InitAck == Constructed(TypeStream(2), "write", TRUE)

NextAck ==
    \/ AttachOpHandler(0, 0, TRUE)
    \/ Connect
    \/ \E a \in InFlight, detailsMode \in {"write", "read"} :
          nConn < MaxConnAck /\ ConnectSuccess(a, detailsMode, <<>>)
    \/ \E c \in connOpen, messages \in SocketNext : SocketOp(c, messages)
    \/ InboundWorker
    \/ \E result \in {"ok", "immediateNoOp"} : ProcessCallback(result)
    \/ UpdateQuorumJoin
    \/ UpdateQuorumLeave
    \/ TimerFire
    \/ nSubmit < MaxSubmitAck /\ Submit(FALSE)
    \/ \E c \in connOpen : Disconnect(c)
    \/ Close

SpecAck == InitAck /\ [][NextAck]_vars

\* The epoch tracker: up to MaxRequests calls of either method, concurrently;
\* the server answers each with a response that carries one of two epochs or
\* none, or the fetch fails with an epoch-mismatch (409) or another error.
FetchErrors ==
    { NetworkError("epochVersionMismatch", fluidEpochMismatchError),
      NetworkError("genericNetworkError", 500) }

InFetch == BagToSet(requests)

InitEpoch ==
    /\ ManagerConstructed(MsnStream(0), "write", TRUE)
    /\ TrackerConstructed(FALSE)

NextEpoch ==
    \/ SetFileEntry
    \/ \E api \in {"json", "response"} :
          nRequests < MaxRequests /\ FetchStart("other", api)
    \/ \E r \in InFetch : RateLimiterRun(r)
    \/ \E r \in InFetch, epoch \in Epochs \cup {Undefined} : FetchSuccess(r, epoch)
    \/ \E r \in InFetch, error \in FetchErrors, epoch \in Epochs \cup {Undefined} :
          FetchFailure(r, error, epoch)
    \/ \E r \in InFetch : PurgeDone(r)

SpecEpoch == InitEpoch /\ [][NextEpoch]_vars

\* The rate limiter: more calls than it has slots, each answered or failed.
NextRate ==
    \/ nRequests < MaxRateRequests /\ FetchStart("other", "json")
    \/ \E r \in InFetch : RateLimiterRun(r)
    \/ \E r \in InFetch : FetchSuccess(r, "e1")
    \/ \E r \in InFetch : FetchFailure(r, NetworkError("genericNetworkError", 500), "e1")

SpecRate == InitEpoch /\ [][NextRate]_vars

\* Redemption: treesLatest, joinSession and other calls through an
\* EpochTrackerWithRedemption; every response carries the file's one epoch.
RedeemErrors ==
    { NetworkError("fileNotFoundOrAccessDeniedError", 404),
      NetworkError("genericNetworkError", 500) }

InitRedeem ==
    /\ ManagerConstructed(MsnStream(0), "write", TRUE)
    /\ TrackerConstructed(TRUE)

NextRedeem ==
    \/ \E fetchType \in {"treesLatest", "joinSession", "ops"} :
          nRequests < MaxRedeemRequests /\ FetchStart(fetchType, "json")
    \/ \E r \in InFetch : RateLimiterRun(r)
    \/ \E r \in InFetch : FetchSuccess(r, "e1")
    \/ \E r \in InFetch, error \in RedeemErrors : FetchFailure(r, error, "e1")
    \/ \E r \in InFetch : DeferralSettled(r)

SpecRedeem == InitRedeem /\ [][NextRedeem]_vars

\* The reconnect ladder: connect() calls, attempts that succeed or fail with any
\* error, with or without retryAfterSeconds, as often as the service likes;
\* connections that are lost; close at any time.
NextLadder ==
    \/ Connect
    \/ \E a \in InFlight : nConn < MaxConnAck /\ ConnectSuccess(a, a.mode, <<>>)
    \/ \E a \in InFlight, error \in Errors \cup {NoError} : ConnectFailure(a, error)
    \/ \E a \in InFlight : ConnectRetry(a)
    \/ \E c \in connOpen : Disconnect(c)
    \/ Close

SpecLadder == InitConn /\ [][NextLadder]_vars

\* Batches: the server's stream is one message longer than a full batch; the
\* handler is attached at sequence number 0, which starts an unbounded
\* getDeltas; a message that arrives out of order starts a bounded one; storage
\* answers with nothing, with a little, or with what was asked for, more or
\* less a message, or fails; the manager is closed at any time.
BatchStream ==
    [ n \in 1..(MaxBatchDeltas + 1) |->
        [ minimumSequenceNumber |-> 0, type |-> "op", clientId |-> 0,
          clientSequenceNumber |-> 0, contents |-> "x" ] ]

BatchEnds ==
    { 0, MaxSeq - 2, MaxSeq - 1,
      MaxBatchDeltas - 2, MaxBatchDeltas - 1, MaxBatchDeltas + 1 }

InitBatch == Constructed(BatchStream, "write", TRUE)

NextBatch ==
    \/ AttachOpHandler(0, 0, TRUE)
    \/ Connect
    \/ \E a \in InFlight : nConn < 1 /\ ConnectSuccess(a, a.mode, <<>>)
    \/ \E c \in connOpen : SocketOp(c, <<Msg(stream, MaxSeq)>>)
    \/ \E hi \in BatchEnds : GetDeltasResponse(hi)
    \/ \E error \in { e \in ConnErrors : e.canRetry = "true" } : GetDeltasError(error)
    \/ GetDeltasWake
    \/ Close

SpecBatch == InitBatch /\ [][NextBatch]_vars

\* Own operations: the stream starts empty; the server appends to it the
\* messages it received over the connections, in the order they were sent and
\* with the sender's connection as clientId; the socket delivers the stream in
\* order.
Sequenced == Len(SelectSeq(stream, LAMBDA e : e.clientId # 0))

ServerSequences ==
    /\ Len(stream) < MaxSeq
    /\ Sequenced < Len(sent)
    /\ LET m == sent[Sequenced + 1]
       IN  Becomes([State EXCEPT !.stream =
               Append(@, [ minimumSequenceNumber |-> 0, type |-> m.type,
                           clientId |-> m.connection,
                           clientSequenceNumber |-> m.clientSequenceNumber,
                           contents |-> "x" ])])

SocketOwn ==
    IF lastQueuedSequenceNumber < Len(stream)
    THEN { <<Msg(stream, lastQueuedSequenceNumber + 1)>> }
    ELSE {}

InitOwn == Constructed(<<>>, "write", TRUE)

NextOwn ==
    \/ AttachOpHandler(0, 0, TRUE)
    \/ Connect
    \/ \E a \in InFlight : nConn < MaxConnAck /\ ConnectSuccess(a, "write", <<>>)
    \/ \E c \in connOpen : Disconnect(c)
    \/ \E batch \in BOOLEAN : Submit(batch)
    \/ Flush
    \/ OutboundWorker
    \/ ServerSequences
    \/ \E c \in connOpen, messages \in SocketOwn : SocketOp(c, messages)
    \/ InboundWorker
    \/ ProcessCallback("ok")

SpecOwn == InitOwn /\ [][NextOwn]_vars

\* Batching: the application submits up to MaxSubmitBatch operations, batched or
\* not, and flushes, with and without a connection.
SubmitMore(batch) ==
    /\ nSubmit < MaxSubmitBatch
    /\ Becomes(submit([State EXCEPT !.nSubmit = @ + 1], "op", "x", batch))

NextSubmit ==
    \/ Connect
    \/ \E a \in InFlight : nConn < MaxConnAck /\ ConnectSuccess(a, a.mode, <<>>)
    \/ \E c \in connOpen : Disconnect(c)
    \/ \E batch \in BOOLEAN : SubmitMore(batch)
    \/ Flush
    \/ OutboundWorker

SpecSubmit == InitConn /\ [][NextSubmit]_vars

\* The queues: the stream's message at sequence number splitAt was sent with
\* its contents split off and arrives without them (splitAt = 0: none was); the
\* handler is attached with or without resume; the socket delivers the stream
\* in order, storage serves it, the socket emits signals; the connection
\* drops, the manager is closed at any time.
ContentStream(splitAt) ==
    [ n \in 1..MaxSeq |->
        [ minimumSequenceNumber |-> 0, type |-> "op", clientId |-> 0,
          clientSequenceNumber |-> 0,
          contents |-> IF n = splitAt THEN "undefined" ELSE "x" ] ]

InitQueues == \E splitAt \in {0, 2} : Constructed(ContentStream(splitAt), "write", TRUE)

NextQueues ==
    \/ \E resume \in BOOLEAN : AttachOpHandler(0, 0, resume)
    \/ Connect
    \/ \E a \in InFlight : nConn < MaxConnAck /\ ConnectSuccess(a, a.mode, <<>>)
    \/ \E c \in connOpen, messages \in SocketNext : SocketOp(c, messages)
    \/ \E c \in connOpen : SocketSignal(c)
    \/ GetDeltasResponse(MaxSeq)
    \/ InboundWorker
    \/ ProcessCallback("ok")
    \/ SignalWorker
    \/ \E c \in connOpen : Disconnect(c)
    \/ Close

SpecQueues == InitQueues /\ [][NextQueues]_vars

\* Op contents: two clients' messages were sent split, so none carries its
\* contents; the contents arrive over the socket, for each client in the order
\* of its clientSequenceNumbers and possibly not at all; the contents of the
\* messages are resolved in the order of their sequence numbers; the manager is
\* closed at any time.
SplitStream ==
    [ n \in 1..MaxSeq |->
        [ minimumSequenceNumber |-> 0, type |-> "op",
          clientId |-> IF n = 3 THEN 2 ELSE 1,
          clientSequenceNumber |-> IF n = 3 THEN 1 ELSE IF n < 3 THEN n ELSE n - 1,
          contents |-> "undefined" ] ]

InitContent == Constructed(SplitStream, "write", TRUE)

NextContent ==
    \/ Connect
    \/ \E a \in InFlight : nConn < 1 /\ ConnectSuccess(a, a.mode, <<>>)
    \/ \E c \in connOpen, n \in 1..MaxSeq : OpContent(c, n)
    \/ \E n \in 1..MaxSeq : FetchOpContent(n)
    \/ \E hi \in 1..MaxSeq : FetchContentResponse(hi)
    \/ Close

SpecContent == InitContent /\ [][NextContent]_vars

\* ------------------------------------------------------------------ claims

SeqNums(msgs) == [ i \in 1..Len(msgs) |-> msgs[i].sequenceNumber ]

\* C1: after attachOpHandler(minSeq, seq, ...), the k-th message passed to
\* handler.process has sequence number seq + k, whatever the order of arrivals
\* and fetch results; and the message the inbound worker is about to take is
\* always the next one, so that delivery never skips or stalls on a gap.
C1_TotalOrder ==
    /\ \A k \in 1..Len(delivered) :
          delivered[k].sequenceNumber = initSequenceNumber + k
    /\ QueueReady(inbound) =>
          Head(inbound.q).sequenceNumber = baseSequenceNumber + 1

\* C1 witness: messages arrived out of order and twice, and three were delivered.
C1_Witness ==
    /\ Len(delivered) >= 3
    /\ duplicateMsgCount >= 1
    /\ initSequenceNumber = 0
    /\ ~closed

\* C2: no sequence number is passed to handler.process twice; a message that
\* arrives at or below lastQueuedSequenceNumber is counted as a duplicate, once,
\* and is neither queued nor kept in pending: every message that arrived is
\* either counted, pending, or was queued exactly once.
C2_NoDuplicates ==
    /\ \A i, j \in 1..Len(delivered) :
          i # j => delivered[i].sequenceNumber # delivered[j].sequenceNumber
    /\ duplicateMsgCount = lowArrivals
    /\ ~closed =>
          arrived = duplicateMsgCount + Len(pending)
                    + (lastQueuedSequenceNumber - initSequenceNumber)

\* C2 witness: 1, 2, 2, 3 arrived; the handler saw 1, 2, 3; one duplicate counted.
C2_Witness ==
    /\ SeqNums(delivered) = <<1, 2, 3>>
    /\ duplicateMsgCount = 1
    /\ arrived = 4
    /\ pending = <<>>
    /\ ~closed

IsGap(message) == message.sequenceNumber > lastQueuedSequenceNumber + 1

\* A message that is not the next one arrives from the socket, handler attached.
GapArrival(message) ==
    /\ handler
    /\ ~closed
    /\ IsGap(message)
    /\ \E c \in connOpen : SocketOp(c, <<message>>)

Stopped == closed \/ inbound.error

C7_MsnMonotonic ==
    [][/\ handler => minSequenceNumber' >= minSequenceNumber
       /\ delivered' # delivered =>
             /\ delivered'[Len(delivered')].minimumSequenceNumber >= minSequenceNumber
             /\ minSequenceNumber' = delivered'[Len(delivered')].minimumSequenceNumber
       /\ (InboundWorker /\ Head(inbound.q).minimumSequenceNumber < minSequenceNumber) =>
             /\ delivered' = delivered
             /\ minSequenceNumber' = minSequenceNumber
             /\ inbound'.error]_vars

\* C7 witness: after a delivery the next message carried a lower minimum sequence
\* number: it was taken from the queue, the queue failed, nothing was delivered.
C7_Witness ==
    /\ ~closed
    /\ inbound.error
    /\ Len(delivered) >= 1
    /\ minSequenceNumber = 1
    /\ baseSequenceNumber + Len(inbound.q) < lastQueuedSequenceNumber
    /\ stream[baseSequenceNumber + 1].minimumSequenceNumber = 0

\* C4 as stated: at most one connection of the manager is opened and not closed.
C4_OneLiveConnection == Cardinality(connOpen) <= 1

\* C5 as stated: the clientSequenceNumbers of the messages sent over one
\* connection are strictly increasing in send order.
C5_ClientSeqIncreasing ==
    \A i, j \in 1..Len(sent) :
        (i < j /\ sent[i].connection = sent[j].connection) =>
            sent[i].clientSequenceNumber < sent[j].clientSequenceNumber

\* C6 as stated: the outbound queue is paused whenever the manager has no
\* connection (before the first connect, after a disconnect, an error or a nack,
\* and after close), so that no batch is handed over without a live connection.
C6_PausedWithoutConnection == connection = NoConnection => outbound.paused

\* The handler that runs in this step submitted a NoOp: the outbound queue ends
\* with a new batch that holds a NoOp.
NoOpSubmitted ==
    /\ Len(outbound'.q) > Len(outbound.q)
    /\ outbound'.q[Len(outbound'.q)][1].type = "noop"

\* C8: a NoOp is submitted only by a handler that found the client active (in
\* quorum and connectionMode = "write") when it ran: neither the immediate NoOp
\* nor the NoOp of the timer is submitted by an inactive client, whatever
\* happened between arming the timer and its firing.
C8_NoAckWhenInactive ==
    [][NoOpSubmitted => (inQuorum /\ connectionMode = "write")]_vars

\* C8 witness: a timer fired while the client was not active and submitted
\* nothing: messages were delivered, and the client has submitted no message.
C8_Witness ==
    /\ firedInactive
    /\ Len(delivered) >= 1
    /\ clientSequenceNumber = 0
    /\ outbound.q = <<>>
    /\ connection # NoConnection
    /\ ~closed

\* C9: at most one timer is live, and it is the one updateSequenceNumberTimer
\* holds; a timer is armed only by the callback of a processed message that is
\* not a NoOp, with the client active and no timer armed; and a step that
\* submits a message (the counter increases) leaves no timer armed.
C9_OneAckTimer ==
    /\ [](liveTimers <= 1 /\ (updateSequenceNumberTimer <=> liveTimers = 1))
    /\ [][/\ liveTimers' > liveTimers =>
                /\ ProcessCallback("ok")
                /\ inbound.cur[1].type # "noop"
                /\ inQuorum /\ connectionMode = "write"
                /\ ~updateSequenceNumberTimer
          /\ clientSequenceNumber' = clientSequenceNumber + 1 =>
                ~updateSequenceNumberTimer' /\ liveTimers' = 0]_vars

\* C9 witness: an operation, a NoOp and another operation were processed by a
\* client that is active and has submitted nothing, and one timer is armed.
C9_Witness ==
    /\ updateSequenceNumberTimer
    /\ liveTimers = 1
    /\ Len(delivered) >= 3
    /\ delivered[2].type = "noop"
    /\ ~inbound.processing
    /\ clientSequenceNumber = 0
    /\ inQuorum /\ connectionMode = "write"
    /\ ~closed

\* C10 as stated: while getDeltas sleeps after k >= 1 consecutive attempts
\* without deltas, the last of which carried no retryAfterSeconds, the sleep is
\* min(MaxFetchDelay, MissingFetchDelay * 2^k).
C10_ExponentialBackoff ==
    (gd.phase = "wait" /\ gd.retry >= 1 /\ ~gd.hasRetryAfter) =>
        gd.delay = Min(MaxFetchDelay, MissingFetchDelay * Pow2(gd.retry))

\* What the caller of r receives.
Outcome(r, ok, epoch, error) ==
    [ fetchType |-> r.fetchType, attempt |-> r.attempt, ok |-> ok, epoch |-> epoch,
      error |-> error ]

Received(o) == outcomes' = outcomes (+) SetToBag({o})

\* The response epoch differs from the epoch the tracker has learned.
Diverges(epoch) ==
    fluidEpoch # Undefined /\ epoch # Undefined /\ epoch # fluidEpoch

\* Calls in a phase, and outcomes that are an epoch-mismatch error.
NumberIn(phase) ==
    BagCardinality([ r \in { x \in BagToSet(requests) : x.phase = phase } |->
                        CopiesIn(r, requests) ])

MismatchOutcomes ==
    BagCardinality([ o \in { x \in BagToSet(outcomes) :
                                x.error.errorType = "epochVersionMismatch" } |->
                        CopiesIn(o, outcomes) ])

\* C11: with the file entry set, a response whose epoch does not diverge from
\* the learned one is returned to the caller without a purge; a response whose
\* epoch diverges calls removeEntries once, leaves the learned epoch alone, and
\* its caller receives the epoch-mismatch error when removeEntries is done; no
\* other step purges: there are as many purges as divergent responses.
C11_PurgeOnDivergentResponse ==
    /\ [](removeEntriesCalls = NumberIn("purging") + MismatchOutcomes)
    /\ [][/\ \A r \in InFetch, epoch \in Epochs \cup {Undefined} :
                (fileEntry /\ FetchSuccess(r, epoch)) =>
                   IF Diverges(epoch)
                   THEN /\ removeEntriesCalls' = removeEntriesCalls + 1
                        /\ fluidEpoch' = fluidEpoch
                        /\ outcomes' = outcomes
                        /\ BagIn([r EXCEPT !.phase = "purging",
                                           !.error = EpochMismatchError], requests')
                   ELSE /\ removeEntriesCalls' = removeEntriesCalls
                        /\ Received(Outcome(r, TRUE, epoch, NoFetchError))
          /\ \A r \in InFetch :
                PurgeDone(r) =>
                   /\ removeEntriesCalls' = removeEntriesCalls
                   /\ Received(Outcome(r, FALSE, Undefined, EpochMismatchError))]_vars

\* C11 witness: four calls; three callers received a response with epoch e1,
\* the fourth the epoch-mismatch error; removeEntries was called once.
C11_Witness ==
    /\ nRequests = 4
    /\ requests = EmptyBag
    /\ fluidEpoch = "e1"
    /\ removeEntriesCalls = 1
    /\ MismatchOutcomes = 1
    /\ \E r \in { Request("other", "json", FALSE) } :
          CopiesIn(Outcome(r, TRUE, "e1", NoFetchError), outcomes) = 3

\* C12: when a fetch fails with an epochVersionMismatch error and the epoch of
\* the response equals the tracker's, the caller receives a ThrottlingError
\* with retryAfterMs 1000 and status 429, and removeEntries is not called.
C12_Coherency409 ==
    [][\A r \in InFetch, epoch \in Epochs :
          (FetchFailure(r, EpochMismatchError, epoch) /\ fluidEpoch = epoch) =>
             /\ Received(Outcome(r, FALSE, Undefined, ThrottlingError(1000, 429)))
             /\ removeEntriesCalls' = removeEntriesCalls
             /\ fluidEpoch' = fluidEpoch]_vars

\* C12 witness: the tracker learned e1 from one response, another call failed
\* with a coherency 409 and its caller received the throttling error; no purge.
C12_Witness ==
    /\ fluidEpoch = "e1"
    /\ removeEntriesCalls = 0
    /\ nRequests = 2
    /\ \E r \in { Request("other", "json", FALSE) } :
          /\ CopiesIn(Outcome(r, TRUE, "e1", NoFetchError), outcomes) = 1
          /\ CopiesIn(Outcome(r, FALSE, Undefined,
                              ThrottlingError(CoherencyRetryAfterMs,
                                              CoherencyStatusCode)), outcomes) = 1

\* C13 as stated: when a fetch fails with an epochVersionMismatch error and
\* the epoch of the response differs from the tracker's, the entries of the
\* file entry are purged and the caller is to receive the epoch error.
C13_PurgeOnFailedMismatch ==
    [][\A r \in InFetch, epoch \in Epochs :
          (/\ fileEntry
           /\ FetchFailure(r, EpochMismatchError, epoch)
           /\ Diverges(epoch)) =>
             /\ removeEntriesCalls' = removeEntriesCalls + 1
             /\ BagIn([r EXCEPT !.phase = "purging", !.error = EpochMismatchError],
                      requests')]_vars

\* C14: at any time at most 24 requests issued through one tracker are being
\* fetched; a request leaves the rate limiter's queue only in a step that
\* starts with fewer than 24 being fetched, that is after one of the 24 has
\* completed or failed.
C14_RateLimit ==
    /\ [](Running(Tracker) <= MaxConcurrentRequests)
    /\ [][NumberIn("fetching")' > NumberIn("fetching")
            => /\ NumberIn("fetching") < MaxConcurrentRequests
               /\ NumberIn("fetching")' = NumberIn("fetching") + 1]_vars

\* All 24 permits are taken and further calls wait.
C14_Witness ==
    /\ Running(Tracker) = MaxConcurrentRequests
    /\ NumberIn("queued") >= 1
    /\ BagCardinality(outcomes) >= 1

\* A treesLatest call has returned a validated response.
TreesLatestSucceeded ==
    \E o \in BagToSet(outcomes) : o.fetchType = "treesLatest" /\ o.ok

C16_CloseIdempotent ==
    /\ [](close(close(State)) = close(State))
    /\ [][Close => close(State)' = State']_vars

\* C16 witness: a closed manager that had a connection, a message in the
\* outbound queue and messages in the inbound queue, on which close() changes
\* nothing.
C16_Witness ==
    /\ closed
    /\ close(State) = State
    /\ nConn >= 1
    /\ connOpen = {}
    /\ nSubmit >= 1
    /\ arrived >= 2

C18_ReconnectOnNack ==
    [][/\ \A c \in 1..nConn :
            (Nack(c) /\ c = connection /\ canReconnect /\ ~closed) =>
               /\ connection' = NoConnection
               /\ c \notin connOpen'
               /\ outbound'.paused
               /\ outbound'.q = <<>>
               /\ lastEvent' = "disconnect"
               /\ ~closed'
               /\ attempts' = attempts (+) SetToBag({Attempt("connecting",
                                                             InitialReconnectDelay,
                                                             "write")})
       /\ \A a \in InFlight :
            ConnectSuccess(a, a.mode, <<>>) =>
               /\ lastEvent' = "connect"
               /\ connection' = nConn'
               /\ connection' \in connOpen'
               /\ connectionMode' = a.mode
               /\ ~outbound'.paused]_vars

\* C18 witness: after a nack the manager, not closed, is connected again, in
\* write mode, over its third connection; "connect" was the last event.
C18_Witness ==
    /\ ~closed
    /\ nConn = 3
    /\ connection = 3
    /\ connOpen = {3}
    /\ connectionMode = "write"
    /\ lastEvent = "connect"

\* C19: connect() on a closed manager fails; connect() while a connect() is
\* pending returns the promise of the pending Deferred and starts no attempt;
\* connect() while connected returns the details of the live connection and
\* opens none; a pending connect() and a connection never coexist, and the
\* attempt that succeeds while a connect() is pending resolves the promise with
\* the details of the connection that later callers are handed.
C19_ConnectShared ==
    /\ [](closed => /\ connectResult(State) = ConnectResult("rejected", NoConnection)
                     /\ connect(State) = State)
    /\ [](connecting => /\ connection = NoConnection
                         /\ ~closed
                         /\ connectResult(State) = ConnectResult("pending", NoConnection)
                         /\ connect(State) = State)
    /\ []((~closed /\ connection # NoConnection) =>
             /\ connectResult(State) = ConnectResult("details", connection)
             /\ connect(State) = State)
    /\ [][\A a \in InFlight :
            (connecting /\ ConnectSuccess(a, a.mode, <<>>)) =>
               /\ ~connecting'
               /\ connection' = nConn'
               /\ connectResult(State)' = ConnectResult("details", connection')]_vars

\* C19 witness: a connect() is pending, its attempt has failed once and waits
\* to be repeated; a further connect() returns the pending promise.
C19_Witness ==
    /\ connecting
    /\ nConn >= 1
    /\ connectResult(State) = ConnectResult("pending", NoConnection)
    /\ \E a \in InFlight : a.phase = "waiting"

\* A queue worker has just reported an error: the queue has failed.
QueueErrorRaised ==
    \/ inbound'.error /\ ~inbound.error
    \/ outbound'.error /\ ~outbound.error

\* C20 as stated: when a queue worker reports an error (the handler's result
\* carries an error, or an assertion fails while a message is processed), the
\* manager emits "error" and is closed.
C20_QueueErrorCloses ==
    [][QueueErrorRaised => (lastEvent' = "error" /\ closed')]_vars

\* What reconnectOnError does to the live connection c on a disconnect (error =
\* NoError) or on an error event.
DroppedAndReconnecting(c, error) ==
    /\ connection' = NoConnection
    /\ c \notin connOpen'
    /\ connectionMode' = "read"
    /\ outbound'.paused
    /\ outbound'.q = <<>>
    /\ IF canReconnect /\ ~closed /\ error.canRetry # "false"
       THEN /\ ~closed'
            /\ lastEvent' = "disconnect"
            /\ attempts' = attempts (+) SetToBag({Attempt("connecting",
                                                          InitialReconnectDelay,
                                                          systemConnectionMode)})
       ELSE /\ closed'
            /\ ~connecting'
            /\ attempts' = attempts
            /\ lastEvent' = IF error.isObject THEN "error" ELSE "disconnect"

Replaced(a, b) == attempts' = (attempts (-) SetToBag({a})) (+) SetToBag({b})

\* C22 as stated: the wait after the first failed attempt of a ladder, the error
\* retryable and without retryAfterSeconds, is InitialReconnectDelay.
C22_LadderStartsAtInitialDelay ==
    [][\A a \in InFlight, error \in Errors :
          (/\ ConnectFailure(a, error)
           /\ ~closed
           /\ a.delay = InitialReconnectDelay
           /\ canRetryOnError(error) /\ ~error.hasRetryAfter) =>
             Replaced(a, Attempt("waiting", InitialReconnectDelay, a.mode))]_vars

\* C22, amended: connect() and every reconnect after a lost connection start
\* an attempt whose delay is InitialReconnectDelay; an attempt of delay d that
\* fails with a retryable error waits min(2 d, MaxReconnectDelay), or the
\* error's retryAfterSeconds if it carries one, and is then repeated with that
\* wait as its delay: the waits are 2000, 4000, 8000, 8000, ...  No delay
\* exceeds MaxReconnectDelay.
C22_ReconnectLadder ==
    /\ [](\A a \in InFlight : a.delay <= MaxReconnectDelay)
    /\ [][/\ \A a \in InFlight, error \in Errors :
                (ConnectFailure(a, error) /\ canRetryOnError(error)) =>
                   Replaced(a, Attempt("waiting",
                                       IF error.hasRetryAfter
                                       THEN error.retryAfterSeconds
                                       ELSE Min(2 * a.delay, MaxReconnectDelay),
                                       a.mode))
          /\ \A a \in InFlight :
                (ConnectRetry(a) /\ ~closed) =>
                   Replaced(a, Attempt("connecting", a.delay, a.mode))
          /\ (Connect /\ attempts' # attempts) =>
                attempts' = attempts (+) SetToBag({Attempt("connecting",
                                                           InitialReconnectDelay,
                                                           connectionMode)})
          /\ \A c \in 1..nConn :
                (Disconnect(c) /\ attempts' # attempts) =>
                   attempts' = attempts (+) SetToBag({Attempt("connecting",
                                                              InitialReconnectDelay,
                                                              systemConnectionMode)})]_vars

\* C22 witness: after a connection was established and lost, the attempts to
\* reconnect failed until the wait reached MaxReconnectDelay.
C22_Witness ==
    /\ ~closed
    /\ nConn >= 1
    /\ connection = NoConnection
    /\ attempts = SetToBag({Attempt("waiting", MaxReconnectDelay, systemConnectionMode)})

\* C23: when a connection attempt fails with an error object whose canRetry is
\* false, the attempt is not repeated, no connect() is pending any more, "error"
\* is emitted and the manager is closed; when it fails with anything else (not
\* an object, no canRetry field, canRetry true) the manager is not closed by
\* it, nothing is emitted and the attempt waits to be repeated.
C23_FatalConnectError ==
    [][\A a \in InFlight, error \in Errors \cup {NoError} :
          ConnectFailure(a, error) =>
             IF error.isObject /\ error.canRetry = "false"
             THEN /\ attempts' = attempts (-) SetToBag({a})
                  /\ closed'
                  /\ ~connecting'
                  /\ connection' = NoConnection
                  /\ lastEvent' = "error"
             ELSE /\ closed' = closed
                  /\ connecting' = connecting
                  /\ lastEvent' = lastEvent
                  /\ \E b \in BagToSet(attempts') :
                        b.phase = "waiting" /\ b.mode = a.mode /\ Replaced(a, b)]_vars

\* C23 witness: the manager never had a connection; its attempt failed with a
\* fatal error: it is closed, "error" was emitted, nothing is in flight.
C23_Witness ==
    /\ closed
    /\ nConn = 0
    /\ lastEvent = "error"
    /\ ~connecting
    /\ attempts = EmptyBag

\* The last sequence number of the batch gd.from+1 .. hi (gd.from when empty).
LastFetch(hi) == IF hi > gd.from THEN hi ELSE gd.from

\* C24: getDeltas asks for at most MaxBatchDeltas sequence numbers at a time.
\* After a batch whose last sequence number is L (L = from for an empty batch)
\* it returns all it has accumulated exactly when to - 1 <= L (bounded) or
\* L < from + MaxBatchDeltas - 1 (unbounded); otherwise it keeps what it has,
\* sets from to L and, after its sleep, fetches again unless the manager is
\* closed, in which case it returns nothing.
C24_GetDeltasBatches ==
    /\ [](gd.phase # "idle" =>
            /\ FetchTo(gd.from, gd.to) - gd.from <= MaxBatchDeltas
            /\ gd.to # NoTo => FetchTo(gd.from, gd.to) <= gd.to)
    /\ [][/\ \A hi \in BatchEnds :
                GetDeltasResponse(hi) =>
                   IF IF gd.to = NoTo
                      THEN LastFetch(hi) < gd.from + MaxBatchDeltas - 1
                      ELSE gd.to - 1 <= LastFetch(hi)
                   THEN arrived' = arrived + Len(gd.allDeltas) + (LastFetch(hi) - gd.from)
                   ELSE /\ arrived' = arrived
                        /\ fetching'
                        /\ gd'.phase = "wait"
                        /\ gd'.from = LastFetch(hi)
                        /\ gd'.to = gd.to
                        /\ gd'.allDeltas = gd.allDeltas \o Range(stream, gd.from, hi)
          /\ GetDeltasWake =>
                IF closed
                THEN arrived' = arrived /\ gd' = IdleGetDeltas /\ ~fetching'
                ELSE gd' = [gd EXCEPT !.phase = "get"] /\ fetching']_vars

\* C24 witness: an unbounded getDeltas received a full batch, went on from its
\* last sequence number and returned after the next, short batch: more than
\* MaxBatchDeltas messages have arrived from storage.
C24_Witness ==
    /\ ~closed
    /\ nConn = 0
    /\ gd = IdleGetDeltas
    /\ arrived = MaxBatchDeltas + 1
    /\ lastQueuedSequenceNumber = MaxBatchDeltas + 1

\* getDeltas gave up: the error was emitted, the manager is closed, the call
\* returned nothing and what it had accumulated reached no queue.
GetDeltasGaveUp ==
    /\ closed'
    /\ lastEvent' = "error"
    /\ gd' = IdleGetDeltas
    /\ ~fetching'
    /\ arrived' = arrived
    /\ delivered' = delivered
    /\ inbound'.q = <<>>
    /\ pending' = <<>>

\* C25: in getDeltas a failure of connectToDeltaStorage, and an error of
\* storage.get whose canRetry is false, are fatal: the error is emitted, the
\* manager is closed and getDeltas returns nothing, whatever it had
\* accumulated; after any other error of storage.get the call keeps what it
\* has accumulated, counts a retry and sleeps before it asks again.
C25_GetDeltasErrors ==
    [][\A error \in Errors :
          /\ GetDeltasStorageConnectError(error) => GetDeltasGaveUp
          /\ GetDeltasError(error) =>
                IF error.canRetry = "false"
                THEN GetDeltasGaveUp
                ELSE /\ closed' = closed
                     /\ lastEvent' = lastEvent
                     /\ fetching'
                     /\ gd'.phase = "wait"
                     /\ gd'.from = gd.from
                     /\ gd'.to = gd.to
                     /\ gd'.allDeltas = gd.allDeltas
                     /\ gd'.retry = gd.retry + 1]_vars

\* C25 witness: storage was reached and a later storage.get failed fatally
\* while messages from the socket were waiting for the gap to be filled: the
\* manager is closed, "error" was emitted and no queue has failed.
C25_Witness ==
    /\ closed
    /\ lastEvent = "error"
    /\ ~inbound.error
    /\ deltaStorageP = "resolved"
    /\ gd = IdleGetDeltas
    /\ ~fetching
    /\ pending = <<>>
    /\ arrived >= 1
    /\ lastQueuedSequenceNumber < arrived

\* C26: every processed message whose clientId is the live connection's carries
\* a clientSequenceNumber that is at least clientSequenceNumberObserved (before
\* the update) and at most the clientSequenceNumber counter.
OwnMessage == connection # NoConnection /\ Head(inbound.q).clientId = connection

C26_OwnAckWithinCounter ==
    [][InboundWorker /\ OwnMessage =>
          /\ clientSequenceNumberObserved <= Head(inbound.q).clientSequenceNumber
          /\ Head(inbound.q).clientSequenceNumber <= clientSequenceNumber]_vars

\* C27: submit(batch = false) first flushes the buffered messages as a batch of
\* their own and then enqueues the new message as a batch of exactly that
\* message; submit(batch = true) leaves the message in the message buffer and
\* the outbound queue as it was; flush() moves the whole buffer as one batch
\* and emits prepareSend; a flush of an empty buffer changes nothing.
Buffered == IF messageBuffer = <<>> THEN <<>> ELSE <<messageBuffer>>

Submitted(m) ==
    /\ m.clientSequenceNumber = clientSequenceNumber + 1
    /\ m.type = "op"

C27_SubmitAndFlush ==
    /\ [](messageBuffer = <<>> => flush(State) = State)
    /\ [][/\ SubmitMore(FALSE) =>
              /\ messageBuffer' = <<>>
              /\ Len(outbound'.q) = Len(outbound.q) + Len(Buffered) + 1
              /\ SubSeq(outbound'.q, 1, Len(outbound.q) + Len(Buffered))
                    = outbound.q \o Buffered
              /\ Len(outbound'.q[Len(outbound'.q)]) = 1
              /\ Submitted(outbound'.q[Len(outbound'.q)][1])
          /\ SubmitMore(TRUE) =>
              /\ outbound' = outbound
              /\ Len(messageBuffer') = Len(messageBuffer) + 1
              /\ SubSeq(messageBuffer', 1, Len(messageBuffer)) = messageBuffer
              /\ Submitted(messageBuffer'[Len(messageBuffer')])
          /\ Flush =>
              /\ messageBuffer' = <<>>
              /\ outbound'.q = Append(outbound.q, messageBuffer)
              /\ lastEvent' = "prepareSend"]_vars

\* A message is submitted unbatched while two messages wait in the buffer, and
\* another while the buffer is empty.
C27_Witness ==
    /\ Len(outbound.q) = 3
    /\ Len(outbound.q[1]) = 1
    /\ Len(outbound.q[2]) = 2
    /\ Len(outbound.q[3]) = 1
    /\ messageBuffer = <<>>

\* C28: a sequenced message that arrived without contents is never passed to
\* handler.process before its contents were resolved.
C28_ContentsResolved ==
    \A i \in 1..Len(delivered) : delivered[i].contents # "undefined"

\* C30: after construction all four queues (inboundPending, inbound,
\* inboundSignal, outbound) are paused; outbound is resumed only when a
\* connection is established, inbound and inboundSignal only by
\* attachOpHandler(resume = true); no message or signal is handed to the
\* handler before a handler is attached.
Resumed(queue, queueNext) == queue.paused /\ ~queueNext.paused

Resolved ==
    /\ fetchOp.result[1].kind = "content"
    /\ fetchOp.result[1].clientId = fetchOp.op[1].clientId
    /\ fetchOp.result[1].clientSequenceNumber = fetchOp.op[1].clientSequenceNumber

C29_ContentResolved ==
    fetchOp.phase = "done" =>
        \/ Resolved
        \/ fetchOp.result[1] = AssertFailed /\ (fetchOp.path = "cache" \/ closed)

\* C31: messages that arrive before attachOpHandler wait in `pending` and are
\* not queued; attachOpHandler(minSeq, seq, handler, true) on an open manager
\* sets the four sequence numbers and then either, with messages pending, queues
\* in order the run seq + 1, seq + 2, ... found among them, drops as duplicates
\* those at or below what is queued, keeps the ones above a gap pending, sorted,
\* and fetches the gap, or, with none pending, starts an unbounded fetch of the
\* deltas after seq; the handler is attached once.
RECURSIVE RunFrom(_, _)
RunFrom(n, msgs) ==
    IF \E i \in 1..Len(msgs) : msgs[i].sequenceNumber = n + 1
    THEN RunFrom(n + 1, msgs)
    ELSE n

Above(n, msgs) == SelectSeq(msgs, LAMBDA m : m.sequenceNumber > n)

Attached(minSeq, seq) ==
    LET last == RunFrom(seq, pending)
        left == SortSeq(Above(last, pending), BySequenceNumber)
    IN  /\ handler'
        /\ initSequenceNumber' = seq
        /\ baseSequenceNumber' = seq
        /\ minSequenceNumber' = minSeq
        /\ lastQueuedSequenceNumber' = last
        /\ ~inbound'.paused
        /\ SeqNums(inbound'.q) = [ i \in 1..(last - seq) |-> seq + i ]
        /\ pending' = left
        /\ duplicateMsgCount' + Len(left) + (last - seq) = Len(pending)
        /\ IF pending = <<>>
           THEN fetching' /\ gd'.phase = "get" /\ gd'.from = seq /\ gd'.to = NoTo
           ELSE IF left = <<>>
           THEN ~fetching' /\ gd' = gd
           ELSE /\ fetching' /\ gd'.phase = "get" /\ gd'.from = last
                /\ gd'.to = left[1].sequenceNumber

DetailsModes == {"write", "read", "undefined"}

InitialMessages == { [ i \in 1..k |-> Msg(stream, i) ] : k \in 0..2 }

InitialContents ==
    { <<>>,
      << [ clientId |-> stream[1].clientId,
           clientSequenceNumber |-> stream[1].clientSequenceNumber,
           contents |-> "x" ] >> }

NextInitial ==
    \/ AttachOpHandler(0, 0, TRUE)
    \/ Connect
    \/ \E a \in InFlight, detailsMode \in DetailsModes,
          initialMessages \in InitialMessages, initialContents \in InitialContents :
          /\ nConn < MaxConnAck
          /\ ConnectDetails(a, detailsMode, initialMessages, initialContents)
    \/ Submit(FALSE)
    \/ \E c \in connOpen : Disconnect(c)
    \/ Close

SpecInitial == InitContent /\ [][NextInitial]_vars

\* What a successful connection attempt with these details leaves behind.
Connected(detailsMode, initialMessages, initialContents) ==
    /\ connection' = nConn + 1
    /\ ~outbound'.paused
    /\ clientSequenceNumber' = 0
    /\ clientSequenceNumberObserved' = 0
    /\ connectionMode' = IF detailsMode = "undefined" THEN "write" ELSE detailsMode
    /\ ~connecting'
    /\ lastEvent' = "connect"
    /\ handledAtConnect' = 0
    /\ arrived' = arrived + Len(initialMessages)
    /\ contentCache' = contentCache \o initialContents
    /\ IF handler
       THEN \A i \in 1..Len(initialMessages) :
               \/ initialMessages[i].sequenceNumber <= lastQueuedSequenceNumber
               \/ \E j \in 1..Len(inbound'.q) : inbound'.q[j] = initialMessages[i]
               \/ \E j \in 1..Len(pending') : pending'[j] = initialMessages[i]
       ELSE pending' = pending \o initialMessages

\* C32: a successful connection attempt resumes the outbound queue, resets
\* clientSequenceNumber and clientSequenceNumberObserved to 0, takes the mode
\* of the details (write when they have none), settles the connect() promise,
\* emits "connect" while none of the initial messages or contents is handled,
\* and then puts the initial contents into the content cache and enqueues the
\* initial messages.
C32_ConnectionSucceeds ==
    [][\A a \in InFlight, detailsMode \in DetailsModes,
          initialMessages \in InitialMessages, initialContents \in InitialContents :
          ConnectDetails(a, detailsMode, initialMessages, initialContents)
              => Connected(detailsMode, initialMessages, initialContents)]_vars

\* C32 witness: a second connection, opened after a submit, without a mode in
\* its details, brought two messages and the contents of the first.
C32_Witness ==
    /\ connection = 2
    /\ connectionMode = "write"
    /\ lastEvent = "connect"
    /\ nSubmit >= 1
    /\ clientSequenceNumber = 0
    /\ Len(contentCache) = 1
    /\ arrived = 2
    /\ ~outbound.paused

\* The sources of epochs: responses of the network, entries of the persisted
\* cache (read for the snapshot, fetchType treesLatest) and connection details
\* of the push channel, each with one of two epochs or with none; the file
\* entry is set at some time.
MaxSourceRequests == 4

CachedEntries ==
    { <<>> } \cup { << [ fluidEpoch |-> epoch ] >> : epoch \in Epochs \cup {Undefined} }

NextSources ==
    \/ SetFileEntry
    \/ nRequests < MaxSourceRequests /\ FetchStart("other", "json")
    \/ \E r \in InFetch : RateLimiterRun(r)
    \/ \E r \in InFetch, epoch \in Epochs \cup {Undefined} : FetchSuccess(r, epoch)
    \/ nRequests < MaxSourceRequests /\ CacheStart("treesLatest")
    \/ \E r \in InFetch, cached \in CachedEntries : CacheRead(r, cached)
    \/ \E epoch \in Epochs \cup {Undefined} :
          nRequests < MaxSourceRequests /\ PushConnected(epoch)
    \/ \E r \in InFetch : PurgeDone(r)

SpecSources == InitEpoch /\ [][NextSources]_vars

\* What validateEpochFromResponse(epoch) does to the tracker.
Validated(epoch) ==
    /\ (fluidEpoch = Undefined /\ epoch # Undefined) =>
          /\ fluidEpoch' = epoch
          /\ learnedEvents' = learnedEvents + 1
    /\ (fluidEpoch # Undefined \/ epoch = Undefined) =>
          /\ fluidEpoch' = fluidEpoch
          /\ learnedEvents' = learnedEvents

\* The caller of r is not answered with an error in this step, or is left with
\* the epoch-mismatch error that removeEntries is followed by.
Passes(r, epoch) == Received(Outcome(r, TRUE, epoch, NoFetchError))

FailsWithMismatch(r) ==
    /\ outcomes' = outcomes
    /\ BagIn([r EXCEPT !.phase = "purging", !.error = EpochMismatchError], requests')

\* C33: the validation of the epoch of a response of the network, of a cache
\* entry or of the push channel: a tracker without an epoch adopts the epoch
\* and reports EpochLearnedFirstTime, which happens once in its life; without
\* an epoch in the response nothing changes and the caller is answered; an
\* epoch that differs from the tracker's fails with the epoch-mismatch error
\* and leaves the tracker's epoch alone.
C33_EpochValidation ==
    /\ [](learnedEvents = IF fluidEpoch = Undefined THEN 0 ELSE 1)
    /\ [][/\ \A r \in InFetch, epoch \in Epochs \cup {Undefined} :
                \/ FetchSuccess(r, epoch)
                \/ CacheRead(r, << [ fluidEpoch |-> epoch ] >>)
                => /\ Validated(epoch)
                   /\ ~Diverges(epoch) => Passes(r, epoch)
                   /\ Diverges(epoch) /\ fileEntry => FailsWithMismatch(r)
          /\ \A epoch \in Epochs :
                PushConnected(epoch)
                => /\ Validated(epoch)
                   /\ ~Diverges(epoch) => Passes(PushRequest, epoch)
                   /\ Diverges(epoch) /\ fileEntry => FailsWithMismatch(PushRequest)
         ]_vars

\* C33 witness: the epoch was learned from a cache entry; later a response
\* without an epoch was returned, and one of the push channel with another
\* epoch is being purged for.
C33_Witness ==
    /\ fluidEpoch = "e1"
    /\ learnedEvents = 1
    /\ \E o \in BagToSet(outcomes) :
          o.ok /\ o.epoch = Undefined /\ CopiesIn(o, outcomes) = 2
    /\ BagIn([PushRequest EXCEPT !.phase = "purging", !.error = EpochMismatchError],
             requests)
    /\ nRequests = 4

\* C34: the deferral of the redemption tracker is completed once and keeps its
\* state and error from then on; while it is pending, any validated response
\* resolves it and a failed treesLatest call rejects it with the error the
\* caller of treesLatest gets, and no other failure touches it. A joinSession
\* call that waits for the deferral receives the error of a rejected deferral
\* and is not repeated; a call records at its start whether the deferral was
\* completed, and a joinSession call that did fails on 404 like on any error.
C34_CompletedOnce ==
    [][/\ treesLatestDeferral.state # "pending" =>
             treesLatestDeferral' = treesLatestDeferral
       /\ \A fetchType \in {"treesLatest", "joinSession", "ops"} :
             FetchStart(fetchType, "json") =>
                BagIn(Request(fetchType, "json", treesLatestDeferral.state # "pending"),
                      requests')
       /\ \A r \in InFetch :
             /\ (FetchSuccess(r, "e1") /\ treesLatestDeferral.state = "pending") =>
                   treesLatestDeferral'.state = "resolved"
             /\ \A error \in RedeemErrors :
                   /\ (/\ FetchFailure(r, error, "e1")
                       /\ treesLatestDeferral.state = "pending") =>
                         IF r.fetchType = "treesLatest"
                         THEN /\ treesLatestDeferral' =
                                    [ state |-> "rejected", error |-> error ]
                              /\ Received(Outcome(r, FALSE, Undefined, error))
                         ELSE treesLatestDeferral' = treesLatestDeferral
                   /\ (/\ FetchFailure(r, error, "e1")
                       /\ r.fetchType = "joinSession"
                       /\ r.completed) =>
                         /\ Received(Outcome(r, FALSE, Undefined, error))
                         /\ requests' = requests (-) SetToBag({r})
             /\ (DeferralSettled(r) /\ treesLatestDeferral.state = "rejected") =>
                   /\ Received(Outcome(r, FALSE, Undefined, treesLatestDeferral.error))
                   /\ requests' = requests (-) SetToBag({r})]_vars

\* C34 witness: treesLatest failed with 500 and rejected the deferral; a
\* joinSession call that had failed with 404 received the error of treesLatest,
\* one that started afterwards its own 404; a later response succeeded and the
\* deferral is still rejected.
C34_Witness ==
    /\ treesLatestDeferral = [ state |-> "rejected",
                               error |-> NetworkError("genericNetworkError", 500) ]
    /\ \E o \in BagToSet(outcomes) :
          /\ o.fetchType = "joinSession" /\ o.attempt = 1
          /\ o.error = NetworkError("fileNotFoundOrAccessDeniedError", 404)
    /\ \E o \in BagToSet(outcomes) :
          /\ o.fetchType = "joinSession" /\ o.attempt = 1
          /\ o.error = treesLatestDeferral.error
    /\ \E o \in BagToSet(outcomes) : o.fetchType = "ops" /\ o.ok
    /\ requests = EmptyBag

CacheReads == { r \in InFetch : r.api = "cache" }

\* C35: fetchFromCache on a miss returns undefined and leaves the epoch and
\* the cache alone; an entry whose epoch differs from the tracker's is never
\* returned: with the file entry set, removeEntries is called and the caller
\* receives the epoch-mismatch error when it is done; any other entry is
\* returned, and a tracker without an epoch adopts the entry's.
C35_FetchFromCache ==
    [][\A r \in CacheReads :
          /\ CacheRead(r, <<>>) =>
                /\ Received(Outcome(r, TRUE, Undefined, NoFetchError))
                /\ fluidEpoch' = fluidEpoch
                /\ removeEntriesCalls' = removeEntriesCalls
          /\ \A epoch \in Epochs \cup {Undefined} :
                CacheRead(r, << [ fluidEpoch |-> epoch ] >>) =>
                   IF Diverges(epoch)
                   THEN /\ \A o \in BagToSet(outcomes') :
                              o.ok => CopiesIn(o, outcomes') = CopiesIn(o, outcomes)
                        /\ fluidEpoch' = fluidEpoch
                        /\ fileEntry =>
                              /\ removeEntriesCalls' = removeEntriesCalls + 1
                              /\ FailsWithMismatch(r)
                   ELSE /\ Received(Outcome(r, TRUE, epoch, NoFetchError))
                        /\ removeEntriesCalls' = removeEntriesCalls
                        /\ fluidEpoch' = IF fluidEpoch = Undefined THEN epoch
                                                                   ELSE fluidEpoch
          /\ PurgeDone(r) =>
                /\ Received(Outcome(r, FALSE, Undefined, EpochMismatchError))
                /\ removeEntriesCalls' = removeEntriesCalls]_vars

\* C35 witness: the first cache entry taught the tracker e1 and was returned, a
\* miss returned undefined, and an entry with another epoch was purged for and
\* answered with the epoch-mismatch error.
C35_Witness ==
    /\ fluidEpoch = "e1"
    /\ removeEntriesCalls = 1
    /\ \A o \in BagToSet(outcomes) : o.fetchType = "treesLatest"
    /\ \E o \in BagToSet(outcomes) : o.ok /\ o.epoch = "e1"
    /\ \E o \in BagToSet(outcomes) : o.ok /\ o.epoch = Undefined
    /\ \E o \in BagToSet(outcomes) : o.error = EpochMismatchError
    /\ requests = EmptyBag
    /\ nRequests = 3

\* C40: an epoch the tracker has learned stays for the rest of its life; so,
\* with the file entry set, every response of the network, cache entry or
\* push connection that carries another epoch calls removeEntries once more and
\* fails with the epoch-mismatch error, however many came before.
C40_EpochIsFinal ==
    /\ [](removeEntriesCalls = NumberIn("purging") + MismatchOutcomes)
    /\ [][/\ fluidEpoch # Undefined => fluidEpoch' = fluidEpoch
          /\ \A epoch \in Epochs :
                /\ \A r \in InFetch :
                      (/\ FetchSuccess(r, epoch) \/ CacheRead(r, << [ fluidEpoch |-> epoch ] >>)
                       /\ Diverges(epoch) /\ fileEntry) =>
                          /\ removeEntriesCalls' = removeEntriesCalls + 1
                          /\ FailsWithMismatch(r)
                /\ (PushConnected(epoch) /\ Diverges(epoch) /\ fileEntry) =>
                      /\ removeEntriesCalls' = removeEntriesCalls + 1
                      /\ FailsWithMismatch(PushRequest)
          /\ \A r \in InFetch :
                PurgeDone(r) =>
                   Received(Outcome(r, FALSE, Undefined, EpochMismatchError))]_vars

\* C40 witness: the tracker learned e1; a response, a cache entry and a push
\* connection with e2 followed, each was purged for and failed, and the epoch
\* is still e1.
C40_Witness ==
    /\ fluidEpoch = "e1"
    /\ removeEntriesCalls = 3
    /\ \A fetchType \in {"other", "treesLatest", "push"} :
          \E o \in BagToSet(outcomes) :
             o.fetchType = fetchType /\ o.error = EpochMismatchError
    /\ nRequests = 4
    /\ requests = EmptyBag

\* C36: a closed manager holds no connection: an attempt that was in flight
\* when close() was called is not adopted when it succeeds.
C36_ClosedHoldsNoConnection ==
    closed => connection = NoConnection

\* The handler was attached with resume = true and the manager is open.
Resuming == handler /\ ~closed /\ ~inbound.paused

\* A getDeltas call made by fetchMissingDeltas resolved in this step.
FetchCompleted ==
    /\ \/ \E hi \in 0..MaxSeq : GetDeltasResponse(hi)
       \/ \E error \in Errors : GetDeltasError(error)
       \/ \E error \in Errors : GetDeltasStorageConnectError(error)
    /\ gd'.phase # "wait"

\* C37: with the handler attached with resume = true and the manager open, a
\* fetch is in flight whenever a message is pending; there is one getDeltas call
\* of fetchMissingDeltas at a time, and a gap message that arrives meanwhile
\* leaves it as it is; when the fetch completes, the messages still pending are
\* beyond a gap and a fetch up to the first of them has been started.
C37_NoStalledGap ==
    /\ [](Resuming /\ pending # <<>> => fetching /\ gd.phase # "idle")
    /\ [][/\ \A c \in connOpen, messages \in Singles :
                (SocketOp(c, messages) /\ Resuming /\ fetching) =>
                   fetching' /\ gd' = gd
          /\ (FetchCompleted /\ Resuming /\ ~closed') =>
                /\ \A i \in 1..Len(pending') :
                      pending'[i].sequenceNumber > lastQueuedSequenceNumber' + 1
                /\ pending' # <<>> =>
                      /\ fetching'
                      /\ gd'.phase = "get"
                      /\ gd'.from = lastQueuedSequenceNumber'
                      /\ gd'.to = pending'[1].sequenceNumber]_vars

\* C37 witness: message 4 arrived while the fetch started by attachOpHandler was
\* in flight; storage returned 1 and 2, which are queued, and a fetch from 2
\* to 4 is in flight for the message still pending.
C37_Witness ==
    /\ Resuming
    /\ SeqNums(pending) = <<4>>
    /\ SeqNums(inbound.q) = <<1, 2>>
    /\ lastQueuedSequenceNumber = 2
    /\ arrived = 3
    /\ duplicateMsgCount = 0
    /\ fetching /\ gd.phase = "get" /\ gd.from = 2 /\ gd.to = 4
    /\ deltaStorageP = "resolved"

\* Connection c emits nack, disconnect or error.
Notifies(c) ==
    \/ Nack(c)
    \/ Disconnect(c)
    \/ \E error \in ConnErrors : ConnectionError(c, error)

\* C38: a nack, disconnect or error of a connection that is not the manager's
\* current one changes nothing and emits nothing; the notification of the
\* current connection makes it stale (it emits disconnect, clears the paused
\* outbound queue and starts at most one attempt), and a connection that is not
\* current never becomes current again, so the later notifications of the same
\* socket are ignored.
C38_StaleConnectionIgnored ==
    [][/\ \A c \in 1..nConn :
             /\ (Notifies(c) /\ c # connection) => UNCHANGED vars
             /\ (Notifies(c) /\ c = connection) =>
                   /\ connection' = NoConnection
                   /\ c \notin connOpen'
                   /\ lastEvent' \in {"disconnect", "error"}
                   /\ outbound'.q = <<>> /\ outbound'.paused
                   /\ IF closed' THEN attempts' = attempts
                      ELSE BagCardinality(attempts') = BagCardinality(attempts) + 1
             /\ c # connection => c # connection'
       /\ nConn' >= nConn]_vars

\* C38 witness: the second connection is the current one, the first was lost;
\* disconnect was emitted for it, its later notifications are ignored.
C38_Witness ==
    /\ connection = 2
    /\ nConn = 2
    /\ 1 \notin connOpen
    /\ lastEvent = "connect"
    /\ ~closed
    /\ attempts = EmptyBag

\* The messages submitted and not yet handed to the connection.
RECURSIVE Flatten(_)
Flatten(batches) ==
    IF batches = <<>> THEN <<>> ELSE Head(batches) \o Flatten(Tail(batches))

Stamped == messageBuffer \o Flatten(outbound.q)

\* The message a submit call has just stamped.
LastStamped(batch) ==
    IF batch THEN messageBuffer'[Len(messageBuffer')]
    ELSE outbound'.q[Len(outbound'.q)][1]

\* C39: once the handler is attached, initSequenceNumber <= baseSequenceNumber
\* <= lastQueuedSequenceNumber; neither of the two ever decreases, and
\* baseSequenceNumber counts the messages handed to the handler, one at a time;
\* a submitted message is stamped with the baseSequenceNumber of the moment,
\* so no message carries a referenceSequenceNumber above
\* lastQueuedSequenceNumber.
C39_SequenceNumbersOrdered ==
    /\ [](handler =>
            /\ initSequenceNumber <= baseSequenceNumber
            /\ baseSequenceNumber <= lastQueuedSequenceNumber
            /\ baseSequenceNumber = initSequenceNumber + Len(delivered)
            /\ \A i \in 1..Len(Stamped) :
                  Stamped[i].referenceSequenceNumber <= lastQueuedSequenceNumber)
    /\ [][/\ handler =>
               /\ baseSequenceNumber' \in {baseSequenceNumber, baseSequenceNumber + 1}
               /\ lastQueuedSequenceNumber' >= lastQueuedSequenceNumber
          /\ \A batch \in BOOLEAN :
                Submit(batch) =>
                   LastStamped(batch).referenceSequenceNumber = baseSequenceNumber]_vars

\* C39 witness: the first submitted message came back and was processed; a
\* message submitted after that carries reference 1.
C39_Witness ==
    /\ handler
    /\ initSequenceNumber = 0
    /\ baseSequenceNumber = 1
    /\ lastQueuedSequenceNumber = 1
    /\ Len(delivered) = 1
    /\ Len(sent) = 1
    /\ \E i \in 1..Len(Stamped) : Stamped[i].referenceSequenceNumber = 1

====
